---- MODULE Spec2Model ----
(***************************************************************************)
(* Firework simulator: the Particle Store (ParticleSystem), the Shell      *)
(* entity and the per-frame driver, as a state machine.                    *)
(*                                                                         *)
(* Time is counted in units of 300 ms, positions and speeds are integers.  *)
(* Air drag (a factor in (0,1]) is not represented: no discrete field of   *)
(* the program depends on it.  Angles are multiples of pi/2.               *)
(***************************************************************************)
EXTENDS Integers, Sequences, FiniteSets, TLC

(***************************************************************************)
(* Bounds of the model                                                     *)
(***************************************************************************)
MaxShells == 1      \* shells launched in one behaviour
MaxParts == 2       \* factory calls one burst pattern makes at most
MaxFrames == 7      \* frames in one behaviour
MaxTimeStep == 3    \* largest timeStep of a frame
MaxStars == 9       \* Star instances the factory creates
MaxSparks == 8      \* Spark instances the factory creates
MaxRemoves == 1     \* removeStar calls in one behaviour
RandBits == 2       \* length of the cycle of random bits of one operation
MaxPreallocs == 1   \* preallocate calls in one behaviour
MaxPrealloc == 2    \* largest count of a preallocate call
RandomSteps == 13   \* values a Math.random() draw of the catalog can take
MaxDraws == 16      \* Math.random() draws of one catalog or sequencer operation
DrawCycle == 3      \* length of the cycle of draws of one operation
MaxSeqCalls == 3    \* startSequence calls in a run of the sequencer
MaxPauseCalls == 2  \* startSequence calls in a run with pauses
MaxSeqFrames == 4   \* frames in a run of the sequencer
MaxFinaleCalls == 36   \* startSequence calls in a run of the finale
MaxFinaleFrames == 40  \* frames in a run of the finale
MaxIdleTicks == 1   \* ticker events while the simulation is not running
MaxToggles == 1     \* pause and menu toggles in one behaviour
MaxClicks == 1      \* clicks on the canvas in one behaviour
MaxTicks == 2       \* steps of the wall clock in one behaviour
TickMs == 15001     \* ms of one step of the wall clock
SeqFrameTime == 10  \* frame time of a run of the sequencer
MaxFlashCalls == 3  \* addFlash and popFlash calls made between frames
MaxFlashFrames == 4 \* frames in a run of the flash queue
MaxSoundShells == 2  \* shells launched in a run of the death sounds
MaxArcCount == 33    \* largest count of a createParticleArc call
MaxArcStars == 12    \* Star instances of a run with every createParticleArc call
MaxArcSparks == 80   \* Spark instances of such a run
MaxBurstCount == 60  \* largest count of a createBurst call
MaxClockFrames == 50 \* frames in a run of the ticker against the wall clock
MaxAutoFrames == 12 \* frames in a run of the auto launch countdown
MaxCustomStars == 1 \* stars a caller adds and customises in one behaviour
MaxSizeChanges == 1 \* changes of the configured shell size in one behaviour
MaxSoundFrames == 3 \* frames in a run of the burst sound

(***************************************************************************)
(* Program constants, in model units                                       *)
(***************************************************************************)
quality == 3              \* DEFAULT_CONFIG.quality = QUALITY_HIGH
simSpeed == 1             \* App.simSpeed
FrameCapMs == 68          \* else if (frameTime > 68) frameTime = 68
PI_MILLI == 3142          \* Math.PI, in thousandths
PI_HALF_MILLI == 1571     \* PI_HALF, in thousandths
PI_2_MICRO == 6283185     \* PI_2, in millionths
CrossetteCount == 4       \* createParticleArc(startAngle, PI_2, 4, ...)
CrossetteLife == 2        \* life: 600
CrackleCount == 32        \* isHighQuality ? 32 : 16
CrackleLife == 1          \* life: 300 + random * 200
FloralLife == 3           \* life: 1000 + random * 300
LeavesCount == 7          \* createBurst(7, ...)
LeavesLife == 8           \* life: 2400 + random * 600
EffectFlashRadius == 46   \* addFlash(star.x, star.y, 46)
DefaultSparkLife == 2     \* sparkLife: 750
CometSparkFreq == 4       \* comet.sparkFreq (32 / quality, 8 in high quality)
CometSparkLife == 1       \* comet.sparkLife = 320
CometTransition == 2      \* comet.transitionTime = random^1.5 * 700 + 500
GlitterFreq == 4          \* sparkFreq of the glitter presets, / quality
LeavesSparkFreq == 4      \* newStar.sparkFreq = 144 / quality
WordExtraLife == 3        \* word sparks: life ... + 1000
StageH == 10              \* stage height: launchY
LaunchVelocity == 1       \* pow(launchDistance * 0.04, 0.64)
CometLifeFactor == 3      \* life: launchVelocity * 400 (horsetail: 100)
LaunchX == 60             \* launchX = position * (width - hpad * 2) + hpad

(***************************************************************************)
(* Colours: COLOR_CODES_W_INVIS restricted to three palette colours, in    *)
(* the order of the palette, followed by the invisible sentinel.           *)
(***************************************************************************)
INVISIBLE == "_INVISIBLE_"
COLOR_CODES == <<"Red", "Gold", "White">>
COLOR_CODES_W_INVIS == COLOR_CODES \o <<INVISIBLE>>
Palette == {COLOR_CODES[i] : i \in 1..Len(COLOR_CODES)}
Buckets == Palette \cup {INVISIBLE}

Undefined == "undefined"
NoDeath == [kind |-> Undefined, ref |-> 0]

Min(a, b) == IF a < b THEN a ELSE b
Max(a, b) == IF a > b THEN a ELSE b

\* sin and cos of k * pi/2
Sin(k) == <<0, 1, 0, -1>>[(k % 4) + 1]
Cos(k) == <<1, 0, -1, 0>>[(k % 4) + 1]
ANGLE_PI == 2

RemoveAt(s, i) == SubSeq(s, 1, i - 1) \o SubSeq(s, i + 1, Len(s))

Last(s) == s[Len(s)]
Front(s) == SubSeq(s, 1, Len(s) - 1)
Reverse(s) == [k \in 1..Len(s) |-> s[Len(s) + 1 - k]]

RECURSIVE IndexFrom(_, _, _)
IndexFrom(s, e, i) ==
  IF i > Len(s) THEN 0 ELSE IF s[i] = e THEN i ELSE IndexFrom(s, e, i + 1)
\* Array.prototype.indexOf, 1-based; 0 when absent
IndexOf(s, e) == IndexFrom(s, e, 1)

Count(s, e) == Cardinality({i \in 1..Len(s) : s[i] = e})

(***************************************************************************)
(* State.  stars / sparks hold every instance the pool factories have      *)
(* created (an instance is its index); the buckets and the free lists      *)
(* hold instance indexes.                                                  *)
(***************************************************************************)
VARIABLES
  stars,          \* Star instances
  activeStars,    \* colour -> sequence of star indexes
  starPool,       \* free list of the star pool
  sparks,         \* Spark instances
  activeSparks,   \* colour -> sequence of spark indexes
  sparkPool,      \* free list of the spark pool
  activeFlashes,  \* queued BurstFlash records
  flashPool,      \* number of pooled flash instances
  shells,         \* launched Shell objects
  played,         \* bursts whose playedDeathSound flag is set
  nBursts,        \* burst() calls made so far
  currentFrame,   \* Simulation.currentFrame
  removes,        \* removeStar calls made so far
  frameTime,      \* time between two animation frames
  log,            \* what the last operation did (history)
  config,         \* ConfigManager.state: shell, autoLaunch, finale, paused, menuOpen
  device,         \* IS_DESKTOP, IS_HEADER, and ConfigManager.state.size, which
                  \* starts as the default of the device
  sim,            \* Simulation: isFirstSeq, currentFinaleCount, autoLaunchTime,
                  \* seqSmallBarrageLastCalled; the Ticker's lastTimestamp
  now,            \* Date.now(), ms since the Simulation was constructed
  timers,         \* setTimeout callbacks that have not run yet
  hist,           \* counters of what has happened so far (history)
  probe           \* the last call made on the Shell Catalog and its outcome

storeVars == <<stars, activeStars, starPool, sparks, activeSparks, sparkPool,
               activeFlashes, flashPool, shells, played, nBursts>>

appVars == <<config, device, sim, now, timers, hist, probe>>

vars == <<stars, activeStars, starPool, sparks, activeSparks, sparkPool,
          activeFlashes, flashPool, shells, played, nBursts, currentFrame,
          removes, frameTime, log, config, device, sim, now, timers, hist,
          probe>>

EmptyLog ==
  [op |-> "init", timeStep |-> 0,
   aged |-> <<>>,       \* stars whose life was decremented: [id, life, cb]
   physics |-> <<>>,    \* stars updateStar was applied to: [id, use, x0, y0, x1, y1]
   deaths |-> <<>>,     \* onDeath invocations: [id, cb, x, y, from, stars, sparks, sounds]
   released |-> <<>>,   \* stars released to the pool: [id, use]
   moved |-> <<>>,      \* bucket changes: [id, from, to]
   added |-> <<>>,      \* stars added: [id, color, inCallback, reused, star, o]
   spAdded |-> <<>>,    \* sparks added: [id, color, inCallback, spark, o]
   spAged |-> <<>>,     \* sparks whose life was decremented
   sparked |-> <<>>,    \* "Spark emission" of updateStar: [id, use, freq, ...]
   pool |-> <<>>,       \* calls on the star pool, before and after
   bursts |-> <<>>,     \* burst() calls
   flashes |-> <<>>,    \* flashes popFlash has returned, in the order of the calls
   flAdded |-> <<>>,    \* flashes addFlash has queued, in the order of the calls
   sounds |-> <<>>,     \* playSound calls
   scales |-> <<>>,     \* playSound calls with a scale: [type, scale, shell]
   seq |-> <<>>,        \* startSequence calls: [branch, delay, ...]
   auto |-> <<>>,       \* auto launch of Simulation.update: [on, acc, d, started, t0, t1]
   launches |-> <<>>,   \* shells the sequencer launched: [type, position, height, via]
   fired |-> <<>>,      \* timer callbacks run: [id, ...]
   lookups |-> <<>>]    \* calls on the Shell Catalog: [op, arg, name, found, thrown]

\* The mutable world an operation threads through its calls.
World ==
  [stars |-> stars, activeStars |-> activeStars, starPool |-> starPool,
   sparks |-> sparks, activeSparks |-> activeSparks, sparkPool |-> sparkPool,
   activeFlashes |-> activeFlashes, flashPool |-> flashPool,
   shells |-> shells, played |-> played, nBursts |-> nBursts,
   log |-> EmptyLog,
   seed |-> 0, draws |-> 0,   \* the random source of this operation
   inCallback |-> FALSE,      \* inside a death callback
   frame |-> currentFrame,
   overflow |-> FALSE,        \* a bound of the model was exceeded
   error |-> FALSE,           \* an exception was thrown
   config |-> config, device |-> device, sim |-> sim, now |-> now,
   timers |-> timers, hist |-> hist,
   rnd |-> <<0>>, rptr |-> 0, \* the Math.random() results the sequencer draws
   thrown |-> ""]             \* the exception that ended the operation

(***************************************************************************)
(* Math.random(): the draws of an operation repeat a cycle of RandBits      *)
(* bits, of which the first w.seed are 1.                                  *)
(***************************************************************************)
RandBit(w) == IF (w.draws % RandBits) < w.seed THEN 1 ELSE 0
Drawn(w) == [w EXCEPT !.draws = @ + 1]
\* randomColorSimple(): one draw selects among the palette colours
randomColor(w) == COLOR_CODES[((w.seed + w.draws) % Len(COLOR_CODES)) + 1]

(***************************************************************************)
(* ParticleSystem: stars                                                   *)
(***************************************************************************)
createStar ==
  [x |-> 0, y |-> 0, color |-> "", speedX |-> 0, speedY |-> 0,
   life |-> 0, fullLife |-> 0, visible |-> TRUE, heavy |-> FALSE,
   spinRadius |-> 0, sparkFreq |-> 0, sparkTimer |-> 0, sparkColor |-> "",
   sparkLife |-> DefaultSparkLife, strobe |-> FALSE,
   strobeFreq |-> 0, secondColor |-> Undefined, transitionTime |-> 0,
   colorChanged |-> FALSE, updateFrame |-> 0, onDeath |-> NoDeath,
   \* history of the current use of the instance
   use |-> 0, moves |-> 0, deathCalls |-> 0,
   \* history of the instance: reset calls, and whether its last release
   \* found optional state on it
   resets |-> 0, dirty |-> FALSE]

\* a reset that leaves the death callback on the instance
resetStarKeepOnDeath(star) ==
  [star EXCEPT !.secondColor = Undefined, !.transitionTime = 0,
               !.colorChanged = FALSE, !.strobeFreq = 0, !.resets = @ + 1]

\* a reset that leaves the colour transition fields on the instance
resetStarKeepTransition(star) ==
  [star EXCEPT !.onDeath = NoDeath, !.strobeFreq = 0, !.resets = @ + 1]

resetStar(star) ==
  [star EXCEPT !.onDeath = NoDeath, !.secondColor = Undefined,
               !.transitionTime = 0, !.colorChanged = FALSE,
               !.strobeFreq = 0, !.resets = @ + 1]

\* an acquire that hands out the oldest pooled instance
acquireOldest(w) ==
  IF Len(w.starPool) > 0
  THEN [w |-> [w EXCEPT !.starPool = Tail(@)],
        id |-> Head(w.starPool), reused |-> TRUE]
  ELSE IF Len(w.stars) >= w.hist.maxStars
       THEN [w |-> [w EXCEPT !.overflow = TRUE], id |-> 1, reused |-> FALSE]
       ELSE [w |-> [w EXCEPT !.stars = Append(@, createStar)],
             id |-> Len(w.stars) + 1, reused |-> FALSE]

\* ObjectPool.acquire of the star pool: [w, id, reused]; the factory
\* appends the instance it creates to stars
acquire(w) ==
  IF Len(w.starPool) > 0
  THEN [w |-> [w EXCEPT !.starPool = SubSeq(@, 1, Len(@) - 1)],
        id |-> w.starPool[Len(w.starPool)], reused |-> TRUE]
  ELSE IF Len(w.stars) >= w.hist.maxStars
       THEN [w |-> [w EXCEPT !.overflow = TRUE], id |-> 1, reused |-> FALSE]
       ELSE [w |-> [w EXCEPT !.stars = Append(@, createStar)],
             id |-> Len(w.stars) + 1, reused |-> FALSE]

\* the optional state resetStar is there to clear
HasOptionalState(star) ==
  \/ star.onDeath # NoDeath
  \/ star.secondColor # Undefined
  \/ star.transitionTime # 0
  \/ star.colorChanged
  \/ star.strobeFreq # 0

\* ObjectPool.release of the star pool
release(w, id) ==
  [w EXCEPT !.stars[id] = [resetStar(@) EXCEPT !.dirty = HasOptionalState(w.stars[id])],
            !.starPool = Append(@, id),
            !.log.released = Append(@, [id |-> id, use |-> w.stars[id].use])]

\* ObjectPool.preallocate of the star pool
RECURSIVE preallocate(_, _)
preallocate(w, count) ==
  IF count <= 0 \/ w.overflow THEN w
  ELSE IF Len(w.stars) >= w.hist.maxStars THEN [w EXCEPT !.overflow = TRUE]
  ELSE preallocate([w EXCEPT !.stars = Append(@, createStar),
                             !.starPool = Append(@, Len(w.stars) + 1)],
                   count - 1)

\* what a call on the star pool did: the free list and the factory's
\* instances before (w) and after (w1); id is the instance handed out or
\* handed back, 0 for preallocate
PoolCall(op, w, w1, id, count) ==
  [op |-> op, id |-> id, count |-> count,
   pool0 |-> w.starPool, pool1 |-> w1.starPool,
   made |-> Len(w1.stars) - Len(w.stars),   \* factory calls
   size1 |-> Len(w1.stars),
   resets0 |-> IF id \in 1..Len(w.stars) THEN w.stars[id].resets ELSE 0,
   resets1 |-> IF id \in 1..Len(w1.stars) THEN w1.stars[id].resets ELSE 0,
   others |-> {i \in 1..Len(w.stars) : i # id /\ w1.stars[i] # w.stars[i]}]

AcquireLogged(w, a) ==
  IF a.w.overflow THEN a
  ELSE [a EXCEPT !.w.log.pool = Append(@, PoolCall("acquire", w, a.w, a.id, 0))]

ReleaseLogged(w, w1, id) ==
  [w1 EXCEPT !.log.pool = Append(@, PoolCall("release", w, w1, id, 0))]

PreallocateLogged(w, w1, count) ==
  IF w1.overflow THEN w1
  ELSE [w1 EXCEPT !.log.pool = Append(@, PoolCall("preallocate", w, w1, 0, count))]

\* starPool.acquire() as addStar calls it
StarAcquire(w) == AcquireLogged(w, acquire(w))

\* starPool.release(star) as update and removeStar call it
StarRelease(w, id) ==
  IF w.overflow THEN w ELSE ReleaseLogged(w, release(w, id), id)

\* starPool.preallocate(count)
StarPreallocate(w, count) == PreallocateLogged(w, preallocate(w, count), count)

\* star.speedX = Math.sin(angle) * speed + speedOffX
SpeedX(angle, speed, speedOff) == Sin(angle) * speed + speedOff

\* a vertical speed that takes angle 0 as pointing up
SpeedYUpward(angle, speed, speedOff) == -Cos(angle) * speed + speedOff

\* star.speedY = Math.cos(angle) * speed + speedOffY
SpeedY(angle, speed, speedOff) == Cos(angle) * speed + speedOff

StarOptions(x, y, color, angle, speed, life, speedOffX, speedOffY) ==
  [x |-> x, y |-> y, color |-> color, angle |-> angle, speed |-> speed,
   life |-> life, speedOffX |-> speedOffX, speedOffY |-> speedOffY]

\* the body of addStar once the pool has handed out the instance a.id
addStarTo(a, o, inCallback) ==
  LET id == a.id
      star == [a.w.stars[id] EXCEPT
                 !.visible = TRUE, !.heavy = FALSE,
                 !.x = o.x, !.y = o.y, !.color = o.color,
                 !.speedX = SpeedX(o.angle, o.speed, o.speedOffX),
                 !.speedY = SpeedY(o.angle, o.speed, o.speedOffY),
                 !.life = o.life, !.fullLife = o.life,
                 !.spinRadius = 0, !.sparkFreq = 0, !.sparkTimer = 0,
                 !.sparkColor = o.color, !.sparkLife = DefaultSparkLife,
                 !.strobe = FALSE,
                 !.use = @ + 1, !.moves = 0, !.deathCalls = 0]
  IN [w |-> [a.w EXCEPT
               !.stars[id] = star,
               !.log.added = Append(@, [id |-> id, use |-> star.use,
                                        color |-> o.color,
                                        inCallback |-> inCallback,
                                        reused |-> a.reused,
                                        star |-> star, o |-> o]),
               !.activeStars = IF o.color \in Buckets
                               THEN [@ EXCEPT ![o.color] = Append(@, id)]
                               ELSE @,
               !.error = IF o.color \in Buckets THEN @ ELSE TRUE],
      id |-> id]

\* ParticleSystem.addStar: [w, id]
addStar(w0, o) ==
  IF w0.overflow THEN [w |-> w0, id |-> 1]
  ELSE addStarTo(StarAcquire(w0), o, w0.inCallback)

\* a removeStar that releases the star and leaves it in its bucket
removeStarKeepInBucket(w, id) ==
  IF w.overflow THEN w ELSE StarRelease(w, id)

\* ParticleSystem.removeStar
removeStar(w, id) ==
  IF w.overflow THEN w ELSE
    LET color == w.stars[id].color
        index == IF color \in Buckets THEN IndexOf(w.activeStars[color], id) ELSE 0
        w1 == IF color \notin Buckets THEN [w EXCEPT !.error = TRUE]
              ELSE IF index # 0
                   THEN [w EXCEPT !.activeStars[color] = RemoveAt(@, index)]
                   ELSE w
    IN StarRelease(w1, id)

(***************************************************************************)
(* ParticleSystem: sparks and flashes                                      *)
(***************************************************************************)
createSpark == [x |-> 0, y |-> 0, color |-> "", speedX |-> 0, speedY |-> 0,
                life |-> 0, use |-> 0]

SparkAcquire(w) ==
  IF Len(w.sparkPool) > 0
  THEN [w |-> [w EXCEPT !.sparkPool = SubSeq(@, 1, Len(@) - 1)],
        id |-> w.sparkPool[Len(w.sparkPool)]]
  ELSE IF Len(w.sparks) >= w.hist.maxSparks
       THEN [w |-> [w EXCEPT !.overflow = TRUE], id |-> 1]
       ELSE [w |-> [w EXCEPT !.sparks = Append(@, createSpark)],
             id |-> Len(w.sparks) + 1]

\* ObjectPool.release of the spark pool (resetSpark changes nothing)
SparkRelease(w, id) == [w EXCEPT !.sparkPool = Append(@, id)]

\* ParticleSystem.removeSpark
removeSpark(w, id) ==
  IF w.overflow THEN w ELSE
    LET color == w.sparks[id].color
        index == IF color \in Buckets THEN IndexOf(w.activeSparks[color], id) ELSE 0
        w1 == IF color \notin Buckets THEN [w EXCEPT !.error = TRUE]
              ELSE IF index # 0
                   THEN [w EXCEPT !.activeSparks[color] = RemoveAt(@, index)]
                   ELSE w
    IN SparkRelease(w1, id)

SparkOptions(x, y, color, angle, speed, life) ==
  [x |-> x, y |-> y, color |-> color, angle |-> angle, speed |-> speed,
   life |-> life]

\* the body of addSpark once the pool has handed out the instance a.id
addSparkTo(a, o, inCallback) ==
  LET id == a.id
      spark == [a.w.sparks[id] EXCEPT
                  !.x = o.x, !.y = o.y, !.color = o.color,
                  !.speedX = SpeedX(o.angle, o.speed, 0),
                  !.speedY = SpeedY(o.angle, o.speed, 0),
                  !.life = o.life, !.use = @ + 1]
  IN [a.w EXCEPT
        !.sparks[id] = spark,
        !.log.spAdded = Append(@, [id |-> id, use |-> spark.use,
                                   color |-> o.color,
                                   inCallback |-> inCallback,
                                   spark |-> spark, o |-> o]),
        !.activeSparks = IF o.color \in Buckets
                         THEN [@ EXCEPT ![o.color] = Append(@, id)]
                         ELSE @,
        !.error = IF o.color \in Buckets THEN @ ELSE TRUE]

\* ParticleSystem.addSpark
addSpark(w0, o) ==
  IF w0.overflow THEN w0 ELSE addSparkTo(SparkAcquire(w0), o, w0.inCallback)

\* an addFlash that takes a flash from the pool and never queues it
addFlashUnqueued(w, x, y, radius) ==
  IF w.overflow THEN w ELSE
    [w EXCEPT !.flashPool = IF @ > 0 THEN @ - 1 ELSE 0]

\* ParticleSystem.addFlash
addFlash(w, x, y, radius) ==
  IF w.overflow THEN w ELSE
    [w EXCEPT !.flashPool = IF @ > 0 THEN @ - 1 ELSE 0,
              !.activeFlashes = Append(@, [x |-> x, y |-> y, radius |-> radius]),
              !.log.flAdded = Append(@, [x |-> x, y |-> y, radius |-> radius])]

\* a popFlash that takes the oldest queued flash
popFlashOldest(w) ==
  IF Len(w.activeFlashes) = 0 THEN w
  ELSE [w EXCEPT !.activeFlashes = Tail(@),
                 !.flashPool = @ + 1,
                 !.log.flashes = Append(@, Head(w.activeFlashes))]

\* ParticleSystem.popFlash; the flash it returns is logged
popFlash(w) ==
  IF Len(w.activeFlashes) = 0 THEN w
  ELSE [w EXCEPT !.activeFlashes = SubSeq(@, 1, Len(@) - 1),
                 !.flashPool = @ + 1,
                 !.log.flashes = Append(@, w.activeFlashes[Len(w.activeFlashes)])]

\* Renderer.renderFlashes: pops until the queue is empty
RECURSIVE renderFlashes(_)
renderFlashes(w) ==
  IF w.overflow \/ w.error \/ Len(w.activeFlashes) = 0 THEN w
  ELSE renderFlashes(popFlash(w))

(***************************************************************************)
(* createParticleArc as a function of its arguments, in fixed point:       *)
(* angles in millionths.                                                   *)
(***************************************************************************)
\* a loop that runs to the end of the arc
ArcGoesOnToTheEnd(angle, end, angleDelta, up) ==
  IF up THEN angle < end + angleDelta ELSE angle > end + angleDelta

\* the loop tests: angle < end if end > start, angle > end otherwise
ArcGoesOn(angle, end, angleDelta, up) ==
  IF up THEN angle < end ELSE angle > end

\* for (let angle = start; ...; angle += angleDelta): the angles the
\* factory is called with, before the jitter
RECURSIVE ArcLoop(_, _, _, _, _)
ArcLoop(angle, end, angleDelta, up, angles) ==
  IF ArcGoesOn(angle, end, angleDelta, up)
  THEN ArcLoop(angle + angleDelta, end, angleDelta, up, Append(angles, angle))
  ELSE angles

createParticleArcFrom(start, end, angleDelta) ==
  ArcLoop(start, end, angleDelta, end > start, <<>>)

\* createParticleArc(start, arcLength, count, randomness, factory) for
\* count >= 1
createParticleArcAngles(start, arcLength, count) ==
  createParticleArcFrom(start,
                        start + arcLength - (arcLength \div count) \div 2,
                        arcLength \div count)

(***************************************************************************)
(* Burst helpers (Simulation).  A helper calls its factory once per        *)
(* particle; the model caps the number of calls at MaxParts.               *)
(***************************************************************************)
Parts(count) == Min(Max(count, 1), MaxParts)

\* F(w, k) applied for k = 1 .. n, in order
Repeat(w, n, F(_, _)) ==
  LET f[k \in 0..n] == IF k = 0 THEN w ELSE F(f[k - 1], k)
  IN f[n]

\* the factory calls the run lets a createParticleArc call make
ArcParts(w, calls) == Min(calls, w.hist.maxArc)

\* createParticleArc(start, PI_2, count, randomness, factory), start being
\* a multiple of pi/2
createParticleArc(w, start, count, F(_, _)) ==
  Repeat(w, ArcParts(w, Len(createParticleArcAngles(0, PI_2_MICRO, count))),
         LAMBDA ww, k : F(ww, start + k - 1))

\* createBurst(count, factory, startAngle, arcLength): factory(angle, ringSize)
createBurst(w, count, start, F(_, _, _)) ==
  Repeat(w, Parts(count), LAMBDA ww, k : F(ww, start + k - 1, 1))

\* createHeartBurst(count, factory): factory(x, y) on the heart curve
createHeartBurst(w, count, F(_, _, _)) ==
  Repeat(w, Parts((count \div 14) * 10 + 10), LAMBDA ww, k : F(ww, k, 1))

\* createStarBurst(count, factory): factory(x, y) on the five-point star
createStarBurst(w, count, F(_, _, _)) ==
  Repeat(w, Parts((count \div 14) * 10 + 10), LAMBDA ww, k : F(ww, k + 1, 1))

playSound(w, type) == [w EXCEPT !.log.sounds = Append(@, type)]

\* playSound(type, scale), on behalf of the launched shell of that index;
\* the scale is in thousandths
playSoundScaled(w, type, scale, shell) ==
  [w EXCEPT !.log.sounds = Append(@, type),
            !.log.scales = Append(@, [type |-> type, scale |-> scale,
                                      shell |-> shell])]

(***************************************************************************)
(* createBurst as a function of its arguments, in fixed point: lengths and *)
(* angles in thousandths and arcLength in quarters of the full circle.     *)
(***************************************************************************)
\* Math.floor(Math.sqrt(n)), by bisection between lo and hi
RECURSIVE SqrtBetween(_, _, _)
SqrtBetween(n, lo, hi) ==
  IF hi - lo <= 1 THEN lo
  ELSE IF ((lo + hi) \div 2) * ((lo + hi) \div 2) <= n
       THEN SqrtBetween(n, (lo + hi) \div 2, hi)
       ELSE SqrtBetween(n, lo, (lo + hi) \div 2)

SqrtFloor(n) == SqrtBetween(n, 0, 46341)

\* Math.cos(x) for x in 0 .. PI_HALF, in thousandths: the series up to x^8
CosMilli(x) ==
  LET x2 == (x * x) \div 1000
      x4 == (x2 * x2) \div 1000
      x6 == (x4 * x2) \div 1000
      x8 == (x4 * x4) \div 1000
  IN Max(0, 1000 - x2 \div 2 + x4 \div 24 - x6 \div 720 + x8 \div 40320)

\* a ring size that does not depend on the ring
RingSizeFlat(ringAngle) == 1000

\* const ringSize = Math.cos(ringAngle)
RingSize(ringAngle) == CosMilli(ringAngle)

\* for (let j = 0; j < partsPerArc; j++): the factory calls of one ring,
\* partsPerArc in millionths
RECURSIVE RingCalls(_, _)
RingCalls(j, partsPerArc) ==
  IF j * 1000000 < partsPerArc THEN RingCalls(j + 1, partsPerArc) ELSE j

\* one pass of the outer loop of createBurst: factory(angle, ringSize) is
\* called parts times with speedMult as its second argument
BurstRing(i, C, C_HALF, arcLength) ==
  LET ringAngle == (i * 1000 * PI_HALF_MILLI) \div C_HALF
      ringSize == RingSize(ringAngle)
      partsPerFullRing == C * ringSize
      partsPerArc == (partsPerFullRing * arcLength) \div 4
  IN [i |-> i, ringAngle |-> ringAngle, ringSize |-> ringSize,
      parts |-> RingCalls(0, partsPerArc), speedMult |-> ringSize]

\* for (let i = 0; i <= C_HALF; i++)
RECURSIVE RingLoop(_, _, _, _, _)
RingLoop(i, C, C_HALF, arcLength, rings) ==
  IF i * 1000 <= C_HALF
  THEN RingLoop(i + 1, C, C_HALF, arcLength,
                Append(rings, BurstRing(i, C, C_HALF, arcLength)))
  ELSE rings

\* createBurst(count, factory, startAngle, arcLength) for count >= 1:
\* [C, C_HALF, rings]
createBurstRingsOf(C, arcLength) ==
  [C |-> C, C_HALF |-> C \div 2,
   rings |-> RingLoop(0, C, C \div 2, arcLength, <<>>)]

createBurstRings(count, arcLength) ==
  createBurstRingsOf(
    (2 * (SqrtFloor(((count * 1000000) \div PI_MILLI) * 1000) \div 2) * PI_MILLI)
      \div 1000,
    arcLength)

(***************************************************************************)
(* Death effects (Simulation)                                              *)
(***************************************************************************)
\* a crossette effect whose stars carry the callback of the star that died
crossetteEffectChained(w, star) ==
  IF w.overflow THEN w ELSE
    createParticleArc(w, RandBit(w), CrossetteCount,
      LAMBDA ww, angle :
        LET a == addStar(ww, StarOptions(star.x, star.y, star.color, angle, 1,
                                         CrossetteLife, 0, 0))
        IN [a.w EXCEPT !.stars[a.id].onDeath = star.onDeath])

crossetteEffect(w, star) ==
  IF w.overflow THEN w ELSE
    createParticleArc(w, RandBit(w), CrossetteCount,
      LAMBDA ww, angle :
        addStar(ww, StarOptions(star.x, star.y, star.color, angle, 1,
                                CrossetteLife, 0, 0)).w)

floralEffect(w, star) ==
  IF w.overflow THEN w ELSE
    playSound(
      addFlash(
        createBurst(w, 12 + 6 * quality, 0,
          LAMBDA ww, angle, speedMult :
            Drawn(addStar(ww, StarOptions(star.x, star.y, star.color, angle,
                                    speedMult * 2, FloralLife + RandBit(ww),
                                    star.speedX, star.speedY)).w)),
        star.x, star.y, EffectFlashRadius),
      "burstSmall")

\* the spark settings fallingLeavesEffect gives the star it has added
LeafStar(a) ==
  Drawn([a.w EXCEPT !.stars[a.id].sparkColor = "Gold",
                    !.stars[a.id].sparkFreq = LeavesSparkFreq,
                    !.stars[a.id].sparkLife = DefaultSparkLife])

\* a falling-leaves effect whose stars carry the callback of the star that
\* died
fallingLeavesEffectChained(w, star) ==
  IF w.overflow THEN w ELSE
    playSound(
      addFlash(
        createBurst(w, LeavesCount, 0,
          LAMBDA ww, angle, speedMult :
            LET a == addStar(ww, StarOptions(star.x, star.y, INVISIBLE, angle,
                                   speedMult * 2, LeavesLife + RandBit(ww),
                                   star.speedX, star.speedY))
            IN LeafStar([a EXCEPT !.w.stars[a.id].onDeath = star.onDeath])),
        star.x, star.y, EffectFlashRadius),
      "burstSmall")

fallingLeavesEffect(w, star) ==
  IF w.overflow THEN w ELSE
    playSound(
      addFlash(
        createBurst(w, LeavesCount, 0,
          LAMBDA ww, angle, speedMult :
            LeafStar(addStar(ww, StarOptions(star.x, star.y, INVISIBLE, angle,
                                   speedMult * 2, LeavesLife + RandBit(ww),
                                   star.speedX, star.speedY)))),
        star.x, star.y, EffectFlashRadius),
      "burstSmall")

crackleEffect(w, star) ==
  IF w.overflow THEN w ELSE
    createParticleArc(w, 0, CrackleCount,
      LAMBDA ww, angle :
        addSpark(ww, SparkOptions(star.x, star.y, "Gold", angle, 2, CrackleLife)))

(***************************************************************************)
(* Shell.  A colour option is a sequence: <<c>> a single colour (or        *)
(* "random"), <<c1, c2>> a colour array, <<>> undefined.  Shell sizes are  *)
(* in tenths.                                                              *)
(***************************************************************************)
NoOptions ==
  [shellSize |-> 10, spreadSize |-> 400, starLife |-> 2, starCount |-> 0,
   starDensity |-> 100, color |-> <<>>, glitter |-> "", glitterColor |-> "",
   pistil |-> FALSE, pistilColor |-> "", streamers |-> FALSE,
   crossette |-> FALSE, floral |-> FALSE, crackle |-> FALSE,
   fallingLeaves |-> FALSE, horsetail |-> FALSE, ring |-> FALSE,
   strobe |-> FALSE, strobeColor |-> "", secondColor |-> "",
   disableWord |-> FALSE, heart |-> FALSE, starShape |-> FALSE]

\* new Shell(options); rc is the colour randomColor() returns
ShellNew(options, rc) ==
  LET color == IF options.color = <<>> THEN <<rc>> ELSE options.color
      scaledSize2 == options.spreadSize * options.spreadSize
      density == IF options.starDensity = 0 THEN 100 ELSE options.starDensity
  IN [shellSize |-> IF options.shellSize = 0 THEN 10 ELSE options.shellSize,
      spreadSize |-> options.spreadSize,
      starLife |-> options.starLife,
      color |-> color,
      glitterColor |-> IF options.glitterColor # "" THEN options.glitterColor
                       ELSE color[1],
      disableWord |-> options.disableWord,
      glitter |-> options.glitter,
      pistil |-> options.pistil,
      pistilColor |-> options.pistilColor,
      streamers |-> options.streamers,
      crossette |-> options.crossette,
      floral |-> options.floral,
      crackle |-> options.crackle,
      fallingLeaves |-> options.fallingLeaves,
      horsetail |-> options.horsetail,
      ring |-> options.ring,
      strobe |-> options.strobe,
      strobeColor |-> options.strobeColor,
      secondColor |-> options.secondColor,
      \* the constructor copies neither options.heart nor options.starShape
      heart |-> FALSE,
      starShape |-> FALSE,
      starCount |-> IF options.starCount # 0 THEN options.starCount
                    ELSE Max(6, (scaledSize2 * density) \div (54 * 54 * 100)),
      comet |-> 0,
      id |-> 0,          \* index in shells when launched, 0 for a nested shell
      bursts |-> 0,      \* burst() calls on this shell (history)
      options |-> options]

\* death effects wired with else-if: the first flag set wins
DeathEffectFirstMatch(sh, bid) ==
  IF sh.crossette THEN [kind |-> "crossette", ref |-> bid]
  ELSE IF sh.crackle THEN [kind |-> "crackle", ref |-> bid]
  ELSE IF sh.floral THEN [kind |-> "floral", ref |-> 0]
  ELSE IF sh.fallingLeaves THEN [kind |-> "fallingLeaves", ref |-> 0]
  ELSE NoDeath

\* "Set death effects": the onDeath the burst gives its stars
DeathEffect(sh, bid) ==
  LET d1 == IF sh.crossette THEN [kind |-> "crossette", ref |-> bid] ELSE NoDeath
      d2 == IF sh.crackle THEN [kind |-> "crackle", ref |-> bid] ELSE d1
      d3 == IF sh.floral THEN [kind |-> "floral", ref |-> 0] ELSE d2
      d4 == IF sh.fallingLeaves THEN [kind |-> "fallingLeaves", ref |-> 0] ELSE d3
  IN d4

\* "Create burst pattern": the branch burst() takes
PatternOf(sh) ==
  IF Len(sh.color) = 1
  THEN IF sh.ring THEN "ring"
       ELSE IF sh.heart THEN "heart"
       ELSE IF sh.starShape THEN "starShape"
       ELSE "burst"
  ELSE "twoColor"

\* the glitter settings of burst(): sparkFreq / quality, 0 without glitter
GlitterSparkFreq(sh) == IF sh.glitter # "" THEN GlitterFreq ELSE 0

\* the glitter block shared by starFactory and the ring factory
WithGlitter(w, sh, id) ==
  IF w.overflow THEN w ELSE
    IF sh.glitter # "" /\ GlitterSparkFreq(sh) # 0
    THEN Drawn([w EXCEPT !.stars[id].sparkFreq = GlitterSparkFreq(sh),
                         !.stars[id].sparkLife = DefaultSparkLife,
                         !.stars[id].sparkColor = sh.glitterColor,
                         !.stars[id].sparkTimer = RandBit(w)])
    ELSE w

\* what starFactory sets on the star addStar has returned
starSetup(a, sh, onDeath) ==
  LET id == a.id
      second == IF sh.strobe /\ sh.strobeColor # "" THEN sh.strobeColor
                ELSE IF sh.secondColor # "" THEN sh.secondColor
                ELSE a.w.stars[id].secondColor
      transition == IF sh.strobe THEN Max(1, (sh.starLife + 1) \div 2)
                    ELSE IF sh.secondColor # "" THEN Max(1, (sh.starLife + 2) \div 3)
                    ELSE a.w.stars[id].transitionTime
  IN WithGlitter([a.w EXCEPT !.stars[id].transitionTime = transition,
                             !.stars[id].secondColor = second,
                             !.stars[id].strobe = IF sh.strobe THEN TRUE ELSE @,
                             !.stars[id].strobeFreq = IF sh.strobe THEN 1 ELSE @,
                             !.stars[id].onDeath = onDeath],
                 sh, id)

\* starFactory(angle, speedMult) of burst(), color being the closure variable
starFactory(w, sh, x, y, color, onDeath, angle, speedMult) ==
  IF w.overflow THEN w ELSE
    starSetup(
      addStar(Drawn(Drawn(w)),
        StarOptions(x, y,
          IF color # Undefined THEN color ELSE randomColor(w),
          angle, speedMult * (sh.spreadSize \div 96),
          sh.starLife + RandBit(Drawn(w)),
          IF sh.horsetail
          THEN (IF sh.comet # 0 THEN w.stars[sh.comet].speedX ELSE 0)
          ELSE 0,
          IF sh.horsetail
          THEN (IF sh.comet # 0 THEN w.stars[sh.comet].speedY ELSE 0)
          ELSE -(sh.spreadSize \div 1800))),
      sh, onDeath)

\* the glitter block applied to the star addStar has returned
GlitterOn(a, sh) == WithGlitter(a.w, sh, a.id)

\* the factory of the ring pattern: no death effect, no second colour
ringFactory(w, sh, x, y, color, angle) ==
  IF w.overflow THEN w ELSE
    GlitterOn(addStar(Drawn(w),
                StarOptions(x, y, color, angle, sh.spreadSize \div 96,
                            sh.starLife + RandBit(w), 0, 0)),
              sh)

\* createWordBurst(randomWord(), factory, x, y) with the spark factory of burst()
createWordBurst(w, sh, x, y) ==
  IF w.overflow THEN w ELSE
    LET color == randomColor(w)
    IN Repeat(Drawn(w), MaxParts,
         LAMBDA ww, k :
           addSpark(ww, SparkOptions(x + k, y, color, k, 1,
                                     sh.starLife + WordExtraLife)))

\* pistil options that hand the streamers flag on to the nested shell
PistilOptionsWithStreamers(sh) ==
  [NoOptions EXCEPT
     !.shellSize = sh.shellSize,
     !.spreadSize = sh.spreadSize \div 2,
     !.starLife = Max(1, (sh.starLife * 6) \div 10),
     !.starDensity = 140,
     !.color = IF sh.pistilColor = "" THEN <<>> ELSE <<sh.pistilColor>>,
     !.glitter = "light",
     !.streamers = TRUE,
     !.disableWord = TRUE,
     !.glitterColor = IF sh.pistilColor = "Gold" THEN "Gold" ELSE "White"]

\* the options of the pistil shell burst() constructs
PistilOptions(sh) ==
  [NoOptions EXCEPT
     !.shellSize = sh.shellSize,
     !.spreadSize = sh.spreadSize \div 2,
     !.starLife = Max(1, (sh.starLife * 6) \div 10),
     !.starDensity = 140,
     !.color = IF sh.pistilColor = "" THEN <<>> ELSE <<sh.pistilColor>>,
     !.glitter = "light",
     !.disableWord = TRUE,
     !.glitterColor = IF sh.pistilColor = "Gold" THEN "Gold" ELSE "White"]

\* the options of the streamer shell burst() constructs
StreamerOptions(sh) ==
  [NoOptions EXCEPT
     !.shellSize = sh.shellSize,
     !.spreadSize = (sh.spreadSize * 9) \div 10,
     !.starLife = Max(1, (sh.starLife * 8) \div 10),
     !.starCount = Max(6, sh.spreadSize \div 45),
     !.color = <<"White">>,
     !.disableWord = TRUE,
     !.glitter = "streamer"]

\* the primary pattern of burst()
BurstPattern(w, sh, x, y, onDeath) ==
  IF w.overflow THEN w ELSE
    LET color == IF sh.color[1] = "random" THEN Undefined ELSE sh.color[1]
        F(c, ww, angle, speedMult) ==
          starFactory(ww, sh, x, y, c, onDeath, angle, speedMult)
    IN CASE PatternOf(sh) = "ring" ->
              createParticleArc(Drawn(w), RandBit(w), sh.starCount,
                LAMBDA ww, angle : ringFactory(ww, sh, x, y, color, angle))
         [] PatternOf(sh) = "heart" ->
              createHeartBurst(w, sh.starCount,
                LAMBDA ww, a, m : F(color, ww, a, m))
         [] PatternOf(sh) = "starShape" ->
              createStarBurst(w, sh.starCount,
                LAMBDA ww, a, m : F(color, ww, a, m))
         [] PatternOf(sh) = "burst" ->
              createBurst(w, sh.starCount, 0,
                LAMBDA ww, a, m : F(color, ww, a, m))
         [] OTHER ->
              IF RandBit(w) = 1
              THEN LET w1 == createBurst(Drawn(w), sh.starCount, 0,
                               LAMBDA ww, a, m : F(sh.color[1], ww, a, m))
                   IN createBurst(w1, sh.starCount, ANGLE_PI,
                        LAMBDA ww, a, m : F(sh.color[2], ww, a, m))
              ELSE LET w1 == createBurst(Drawn(w), sh.starCount \div 2, 0,
                               LAMBDA ww, a, m : F(sh.color[1], ww, a, m))
                   IN createBurst(w1, sh.starCount \div 2, 0,
                        LAMBDA ww, a, m : F(sh.color[2], ww, a, m))

\* burst() up to the pattern: the call is counted
burstBegin(w0, sh) ==
  [w0 EXCEPT !.nBursts = @ + 1,
             !.shells = IF sh.id # 0
                        THEN [@ EXCEPT ![sh.id].bursts = @ + 1]
                        ELSE @]

\* the draws of "Word burst" decide for a word
WantWord(w, sh) == ~sh.disableWord /\ RandBit(w) = 1 /\ RandBit(Drawn(w)) = 1

\* "Word burst"
burstWord(w, sh, x, y) ==
  IF w.overflow \/ sh.disableWord THEN w
  ELSE IF WantWord(w, sh) THEN createWordBurst(Drawn(Drawn(w)), sh, x, y)
       ELSE Drawn(Drawn(w))

\* (1 - sizeDiff / maxDiff) * 0.3 + 0.7 in thousandths, with
\* sizeDiff = Math.min(maxDiff, selectedSize - this.shellSize) and maxDiff = 2
soundScale(selectedSize, shellSize) ==
  ((20 - Min(20, selectedSize - shellSize)) * 300) \div 20 + 700

\* a burst flash as wide as the spread
burstFlashOfSpread(w, sh, x, y) ==
  IF w.overflow THEN w
  ELSE IF sh.comet # 0
       THEN playSoundScaled(addFlash(w, x, y, sh.spreadSize), "burst",
                            soundScale(w.device.size, sh.shellSize), sh.id)
       ELSE addFlash(w, x, y, sh.spreadSize)

\* "Burst flash" and "Play burst sound"
burstFlash(w, sh, x, y) ==
  IF w.overflow THEN w
  ELSE IF sh.comet # 0
       THEN playSoundScaled(addFlash(w, x, y, sh.spreadSize \div 4), "burst",
                            soundScale(w.device.size, sh.shellSize), sh.id)
       ELSE addFlash(w, x, y, sh.spreadSize \div 4)

\* the record of a burst() call that has returned in world w
burstLogged(w, entry) ==
  IF w.overflow THEN w ELSE
    [w EXCEPT !.log.bursts =
                Append(@, [entry EXCEPT !.flashes1 = Len(w.activeFlashes),
                                        !.bursts1 = w.nBursts,
                                        !.added1 = Len(w.log.added),
                                        !.flash =
                                           IF w.activeFlashes = <<>> THEN @
                                           ELSE Last(w.activeFlashes)])]

RECURSIVE burstNested(_, _, _, _, _, _)
\* Shell.burst(x, y) after its pattern has been created in world w; w0 is
\* the world of the call (depth is the nesting depth of the call)
burstAfterPattern(w, w0, sh, x, y, depth) ==
  IF w.overflow THEN w ELSE
    burstLogged(
      burstFlash(
        burstNested(
          burstNested(burstWord(w, sh, x, y), sh.pistil, PistilOptions(sh),
                      x, y, depth + 1),
          sh.streamers, StreamerOptions(sh), x, y, depth + 1),
        sh, x, y),
      [bid |-> w0.nBursts + 1, shell |-> sh.id, depth |-> depth,
       x |-> x, y |-> y,
       pattern |-> PatternOf(sh),
       effect |-> DeathEffect(sh, w0.nBursts + 1).kind,
       options |-> sh.options,
       pistil |-> sh.pistil, streamers |-> sh.streamers,
       disableWord |-> sh.disableWord, word |-> WantWord(w, sh),
       starCount |-> sh.starCount,
       ownStars |-> [k \in 1..(Len(w.log.added) - Len(w0.log.added)) |->
                       [id |-> w.log.added[Len(w0.log.added) + k].id,
                        star |-> w.log.added[Len(w0.log.added) + k].star,
                        onDeath |->
                          w.stars[w.log.added[Len(w0.log.added) + k].id].onDeath]],
       added0 |-> Len(w0.log.added), added1 |-> 0,
       flash |-> [x |-> 0, y |-> 0, radius |-> 0],
       flashes0 |-> Len(w0.activeFlashes), flashes1 |-> 0,
       bursts0 |-> w0.nBursts, bursts1 |-> 0])

\* Shell.burst(x, y)
burst(w0, sh, x, y, depth) ==
  IF w0.overflow THEN w0 ELSE
    burstAfterPattern(
      BurstPattern(burstBegin(w0, sh), sh, x, y, DeathEffect(sh, w0.nBursts + 1)),
      w0, sh, x, y, depth)

\* "Pistil" / "Streamers": new Shell(options).burst(x, y) when the flag is set
burstNested(w, flag, options, x, y, depth) ==
  IF w.overflow \/ ~flag THEN w
  ELSE burst(w, ShellNew(options, randomColor(w)), x, y, depth)

\* a death sound every star of the burst plays
DeathSoundDueAlways(w, cb) == TRUE

\* if (!playedDeathSound), the flag being a variable of the burst() call
DeathSoundDue(w, cb) == cb.ref \notin w.played

\* star.onDeath(star): the callback a star carries
InvokeOnDeath(w0, id) ==
  IF w0.overflow THEN w0 ELSE
    LET star == w0.stars[id]
        cb == star.onDeath
        w == [w0 EXCEPT !.inCallback = TRUE,
                        !.stars[id].deathCalls = @ + 1,
                        !.log.deaths = Append(@, [id |-> id, use |-> star.use,
                                                  cb |-> cb, x |-> star.x,
                                                  y |-> star.y,
                                                  from |-> Len(w0.log.added),
                                                  stars |-> 0, sparks |-> 0,
                                                  sounds |-> <<>>])]
        first == DeathSoundDue(w, cb)
        w1 == CASE cb.kind = "burst" -> burst(w, w.shells[cb.ref], star.x, star.y, 0)
                [] cb.kind = "crossette" ->
                     crossetteEffect(
                       IF first THEN [playSound(w, "crackleSmall") EXCEPT
                                        !.played = @ \cup {cb.ref}]
                       ELSE w, star)
                [] cb.kind = "crackle" ->
                     crackleEffect(
                       IF first THEN [playSound(w, "crackle") EXCEPT
                                        !.played = @ \cup {cb.ref}]
                       ELSE w, star)
                [] cb.kind = "floral" -> floralEffect(w, star)
                [] cb.kind = "fallingLeaves" -> fallingLeavesEffect(w, star)
                [] OTHER -> w
    IN [w1 EXCEPT
          !.inCallback = w0.inCallback,
          !.log.deaths[Len(w0.log.deaths) + 1].stars =
             Len(w1.log.added) - Len(w0.log.added),
          !.log.deaths[Len(w0.log.deaths) + 1].sparks =
             Len(w1.log.spAdded) - Len(w0.log.spAdded),
          !.log.deaths[Len(w0.log.deaths) + 1].sounds =
             SubSeq(w1.log.sounds, Len(w0.log.sounds) + 1, Len(w1.log.sounds)),
          !.hist.died = IF cb.kind \in {"crossette", "crackle"}
                        THEN @ \cup {cb} ELSE @,
          !.hist.deathSounds =
             IF cb.kind \in {"crossette", "crackle"}
             THEN @ \o [j \in 1..(Len(w1.log.sounds) - Len(w0.log.sounds)) |->
                          [ref |-> cb.ref,
                           sound |-> w1.log.sounds[Len(w0.log.sounds) + j]]]
             ELSE @]

(***************************************************************************)
(* ParticleSystem.update                                                   *)
(***************************************************************************)
RECURSIVE ISqrt(_, _)
ISqrt(n, r) == IF (r + 1) * (r + 1) > n THEN r ELSE ISqrt(n, r + 1)

\* burnRate = sqrt(life / fullLife), in quarters
BurnRate4(star) ==
  IF star.fullLife <= 0 THEN 0 ELSE ISqrt((16 * star.life) \div star.fullLife, 0)

\* sparkFreq * 0.75 + sparkFreq * burnRateInverse * 4
Rearm(star) == (3 * star.sparkFreq) \div 4 + star.sparkFreq * (4 - BurnRate4(star))

\* "Spark emission": while (star.sparkTimer < 0) ...
RECURSIVE EmitSparks(_, _, _)
EmitSparks(w, id, rearm) ==
  LET star == w.stars[id]
  IN IF star.sparkTimer < 0 /\ rearm > 0 /\ ~w.overflow
     THEN EmitSparks(
            addSpark([w EXCEPT !.stars[id].sparkTimer = @ + rearm],
                     SparkOptions(star.x, star.y, star.sparkColor, 0, 0,
                                  star.sparkLife)),
            id, rearm)
     ELSE w

\* the test of "Handle transitions"
PastTransition(star) ==
  star.transitionTime # 0 /\ star.life < star.transitionTime

\* a colour change test without the colorChanged guard
ColorChangeAlways(star) ==
  star.secondColor # Undefined /\ star.secondColor # ""

\* the test that a colour change is still due
ColorChangeDue(star) ==
  star.secondColor # Undefined /\ star.secondColor # "" /\ ~star.colorChanged

\* "Move to new color array"
ChangeColor(w, id) ==
  IF w.overflow THEN w ELSE
    LET star == w.stars[id]
        idx == IndexOf(w.activeStars[star.color], id)
        w1 == [w EXCEPT !.stars[id].colorChanged = TRUE,
                        !.stars[id].moves = @ + 1,
                        !.activeStars[star.color] =
                           IF idx # 0 THEN RemoveAt(@, idx) ELSE @]
        w2 == [w1 EXCEPT !.stars[id].color = star.secondColor,
                         !.activeStars[star.secondColor] = Append(@, id),
                         !.log.moved = Append(@, [id |-> id, from |-> star.color,
                                                  to |-> star.secondColor])]
    IN IF star.secondColor \notin Buckets THEN [w1 EXCEPT !.error = TRUE]
       ELSE IF star.secondColor = INVISIBLE
            THEN [w2 EXCEPT !.stars[id].sparkFreq = 0]
            ELSE w2

\* position update of updateStar, with speed = 1, no drag and gAcc = 0
MoveStar(w, id) ==
  [w EXCEPT !.stars[id].x = @ + w.stars[id].speedX,
            !.stars[id].y = @ + w.stars[id].speedY,
            !.log.physics = Append(@, [id |-> id, use |-> w.stars[id].use,
                                       x0 |-> w.stars[id].x,
                                       y0 |-> w.stars[id].y,
                                       x1 |-> w.stars[id].x + w.stars[id].speedX,
                                       y1 |-> w.stars[id].y + w.stars[id].speedY])]

\* what "Spark emission" did to the star between worlds w and w1
SparksLogged(w, w1, id) ==
  IF w1.overflow THEN w1 ELSE
    [w1 EXCEPT !.log.sparked =
       Append(@, [id |-> id, use |-> w.stars[id].use,
                  freq |-> w.stars[id].sparkFreq,
                  timer0 |-> w.stars[id].sparkTimer,
                  timer1 |-> w1.stars[id].sparkTimer,
                  life |-> w.stars[id].life, fullLife |-> w.stars[id].fullLife,
                  x |-> w.stars[id].x, y |-> w.stars[id].y,
                  color |-> w.stars[id].sparkColor,
                  sparks |-> SubSeq(w1.log.spAdded, Len(w.log.spAdded) + 1,
                                    Len(w1.log.spAdded))])]

\* a spark emission with if in place of while
StarSparksOnce(w, id, timeStep) ==
  IF w.overflow THEN w
  ELSE IF w.stars[id].sparkFreq = 0 THEN SparksLogged(w, w, id)
  ELSE IF w.stars[id].sparkTimer - timeStep < 0
       THEN SparksLogged(w,
              addSpark([w EXCEPT !.stars[id].sparkTimer =
                                   @ - timeStep + Rearm(w.stars[id])],
                       SparkOptions(w.stars[id].x, w.stars[id].y,
                                    w.stars[id].sparkColor, 0, 0,
                                    w.stars[id].sparkLife)), id)
       ELSE SparksLogged(w, [w EXCEPT !.stars[id].sparkTimer = @ - timeStep], id)

\* "Spark emission"
StarSparks(w, id, timeStep) ==
  IF w.overflow THEN w
  ELSE IF w.stars[id].sparkFreq = 0 THEN SparksLogged(w, w, id)
  ELSE SparksLogged(w,
         EmitSparks([w EXCEPT !.stars[id].sparkTimer = @ - timeStep], id,
                    Rearm(w.stars[id])), id)

\* "Handle transitions": the colour change
StarTransition(w, id) ==
  IF w.overflow THEN w
  ELSE IF PastTransition(w.stars[id]) /\ ColorChangeDue(w.stars[id])
       THEN ChangeColor(w, id)
       ELSE w

\* a strobe that is an else branch of the colour change
StarStrobeUnlessChanged(w, id) ==
  IF w.overflow THEN w
  ELSE IF PastTransition(w.stars[id]) /\ w.stars[id].strobe
          /\ w.stars[id].strobeFreq # 0 /\ ~w.stars[id].colorChanged
       THEN [w EXCEPT !.stars[id].visible =
                        ((w.stars[id].life \div w.stars[id].strobeFreq) % 3 = 0)]
       ELSE w

\* "Handle transitions": the strobe
StarStrobe(w, id) ==
  IF w.overflow THEN w
  ELSE IF PastTransition(w.stars[id]) /\ w.stars[id].strobe
          /\ w.stars[id].strobeFreq # 0
       THEN [w EXCEPT !.stars[id].visible =
                        ((w.stars[id].life \div w.stars[id].strobeFreq) % 3 = 0)]
       ELSE w

\* ParticleSystem.updateStar
updateStar(w0, id, timeStep) ==
  IF w0.overflow THEN w0
  ELSE StarStrobe(StarTransition(StarSparks(MoveStar(w0, id), id, timeStep), id), id)

\* the frame guard left out
NeverUpdated(star, frame) == FALSE

\* "Only update each star once per frame"
AlreadyUpdated(star, frame) == star.updateFrame = frame

\* a death test that lets a star of life 0 live on
ExpiredBelowZero(life) == life < 0

\* the death test of the update loop
Expired(life) == life <= 0

\* "Star died - trigger callback and recycle": loop index i of bucket color
StarDied(w, color, i, id) ==
  IF w.overflow THEN w ELSE
    LET w1 == IF w.stars[id].onDeath # NoDeath THEN InvokeOnDeath(w, id) ELSE w
        w2 == [w1 EXCEPT !.activeStars[color] = RemoveAt(@, i)]
    IN StarRelease(w2, id)

\* the star loop of one bucket: for (i = stars.length - 1; i >= 0; i--)
RECURSIVE StarLoop(_, _, _, _)
StarLoop(w, color, i, timeStep) ==
  IF w.overflow \/ w.error \/ i = 0 THEN w
  ELSE IF i > Len(w.activeStars[color]) THEN [w EXCEPT !.error = TRUE]
  ELSE
    LET id == w.activeStars[color][i]
        star == w.stars[id]
        life == star.life - timeStep
        w1 == [w EXCEPT !.stars[id].updateFrame = w.frame,
                        !.stars[id].life = life,
                        !.log.aged = Append(@, [id |-> id, use |-> star.use,
                                                life |-> life,
                                                cb |-> star.onDeath])]
    IN IF AlreadyUpdated(star, w.frame)
       THEN StarLoop(w, color, i - 1, timeStep)
       ELSE IF Expired(life)
            THEN StarLoop(StarDied(w1, color, i, id), color, i - 1, timeStep)
            ELSE StarLoop(updateStar(w1, id, timeStep), color, i - 1, timeStep)

\* the spark loop of one bucket
RECURSIVE SparkLoop(_, _, _, _)
SparkLoop(w, color, i, timeStep) ==
  IF w.overflow \/ w.error \/ i = 0 THEN w
  ELSE
    LET id == w.activeSparks[color][i]
        spark == w.sparks[id]
        life == spark.life - timeStep
        w1 == [w EXCEPT !.sparks[id].life = life,
                        !.log.spAged = Append(@, [id |-> id, use |-> spark.use])]
    IN IF life <= 0
       THEN SparkLoop(SparkRelease([w1 EXCEPT !.activeSparks[color] =
                                                 RemoveAt(@, i)], id),
                      color, i - 1, timeStep)
       ELSE SparkLoop([w1 EXCEPT !.sparks[id].x = @ + spark.speedX,
                                 !.sparks[id].y = @ + spark.speedY],
                      color, i - 1, timeStep)

\* the star loop and the spark loop of one colour
StarsOf(w, color, timeStep) ==
  StarLoop(w, color, Len(w.activeStars[color]), timeStep)

SparksOf(w, color, timeStep) ==
  SparkLoop(w, color, Len(w.activeSparks[color]), timeStep)

\* COLOR_CODES_W_INVIS.forEach(...), from the c-th colour on
RECURSIVE BucketLoop(_, _, _)
BucketLoop(w, c, timeStep) ==
  IF w.overflow \/ w.error \/ c > Len(COLOR_CODES_W_INVIS) THEN w
  ELSE BucketLoop(
         SparksOf(StarsOf(w, COLOR_CODES_W_INVIS[c], timeStep),
                  COLOR_CODES_W_INVIS[c], timeStep),
         c + 1, timeStep)

\* ParticleSystem.update(timeStep, speed, gravity, currentFrame)
update(w, timeStep, frame) ==
  BucketLoop([w EXCEPT !.frame = frame, !.log.timeStep = timeStep], 1, timeStep)

(***************************************************************************)
(* ParticleSystem: statistics                                              *)
(***************************************************************************)
\* COLOR: the hexadecimal digits of the code of each palette colour
COLOR ==
  [Red |-> <<15, 15, 0, 0, 4, 3>>,
   Gold |-> <<15, 15, 11, 15, 3, 6>>,
   White |-> <<15, 15, 15, 15, 15, 15>>]

\* parseInt(hex.substr(k, 2), 16), k counting the digits after the '#'
ParseHex(hex, k) == 16 * hex[k] + hex[k + 1]

COLOR_TUPLES ==
  [c \in Palette |-> [r |-> ParseHex(COLOR[c], 1),
                      g |-> ParseHex(COLOR[c], 3),
                      b |-> ParseHex(COLOR[c], 5)]]

\* codes.forEach(color => count += activeStars[color].length), from the
\* k-th code on
RECURSIVE CountFrom(_, _, _)
CountFrom(w, codes, k) ==
  IF k > Len(codes) THEN 0
  ELSE Len(w.activeStars[codes[k]]) + CountFrom(w, codes, k + 1)

\* a count that takes in the invisible bucket
getTotalStarCountWithInvisible(w) == CountFrom(w, COLOR_CODES_W_INVIS, 1)

\* ParticleSystem.getTotalStarCount
getTotalStarCount(w) == CountFrom(w, COLOR_CODES, 1)

\* the forEach of getColorBrightness, from the k-th code on
RECURSIVE BrightnessFrom(_, _)
BrightnessFrom(w, k) ==
  IF k > Len(COLOR_CODES) THEN [r |-> 0, g |-> 0, b |-> 0]
  ELSE LET tuple == COLOR_TUPLES[COLOR_CODES[k]]
           count == Len(w.activeStars[COLOR_CODES[k]])
           rest == BrightnessFrom(w, k + 1)
       IN [r |-> tuple.r * count + rest.r,
           g |-> tuple.g * count + rest.g,
           b |-> tuple.b * count + rest.b]

\* ParticleSystem.getColorBrightness
getColorBrightness(w) == BrightnessFrom(w, 1)

(***************************************************************************)
(* Shell.launch                                                            *)
(***************************************************************************)
\* a comet of the colour option of the shell as it is
CometColorOfOption(sh) == sh.color[1]

\* the colour of the comet
CometColor(sh) ==
  IF Len(sh.color) = 1 /\ sh.color[1] # "random" THEN sh.color[1] ELSE "White"

\* Shell.launch after addStar has returned the comet
launchComet(a, sh0, sid, fades) ==
  LET id == a.id
      willow == sh0.glitter = "willow" \/ sh0.fallingLeaves
  IN playSound(
       [a.w EXCEPT
          !.stars[id].heavy = TRUE,
          !.stars[id].spinRadius = 1,
          !.stars[id].sparkFreq = CometSparkFreq,
          !.stars[id].sparkLife = IF willow THEN DefaultSparkLife ELSE CometSparkLife,
          !.stars[id].sparkColor = IF sh0.color = <<INVISIBLE>> THEN "Gold" ELSE @,
          !.stars[id].secondColor = IF fades THEN INVISIBLE ELSE @,
          !.stars[id].transitionTime = IF fades THEN CometTransition ELSE @,
          !.stars[id].onDeath = [kind |-> "burst", ref |-> sid],
          !.shells = Append(@, [sh0 EXCEPT !.comet = id, !.id = sid]),
          !.draws = @ + 1],
       "lift")

\* the comet launch() adds for the shell
CometOptions(sh) ==
  StarOptions(LaunchX, StageH, CometColor(sh), ANGLE_PI, LaunchVelocity,
              LaunchVelocity * (IF sh.horsetail THEN 1 ELSE CometLifeFactor),
              0, 0)

\* new Shell(options), setStage, shell.launch(position, launchHeight)
launch(w0, options) ==
  IF w0.overflow THEN w0 ELSE
    launchComet(addStar(w0, CometOptions(ShellNew(options, randomColor(w0)))),
                ShellNew(options, randomColor(w0)),
                Len(w0.shells) + 1,
                RandBit(w0) = 1 /\ ~options.horsetail)

(***************************************************************************)
(* Shell Catalog: recipes for size 1, one outcome of each factory's        *)
(* random choices                                                          *)
(***************************************************************************)
crysanthemumShell ==
  [NoOptions EXCEPT !.spreadSize = 400, !.starLife = 4, !.starDensity = 120,
                    !.color = <<"Red">>, !.secondColor = "White",
                    !.glitterColor = "Gold", !.pistil = TRUE,
                    !.pistilColor = "White"]

ghostShell ==
  [NoOptions EXCEPT !.spreadSize = 400, !.starLife = 4, !.starDensity = 120,
                    !.color = <<INVISIBLE>>, !.secondColor = "Red",
                    !.glitterColor = "Gold", !.streamers = TRUE]

crossetteShell ==
  [NoOptions EXCEPT !.spreadSize = 400, !.starLife = 3, !.starDensity = 85,
                    !.color = <<"Red">>, !.crossette = TRUE,
                    !.pistilColor = "Gold"]

floralShell ==
  [NoOptions EXCEPT !.spreadSize = 420, !.starLife = 2, !.starDensity = 12,
                    !.color = <<"random">>, !.floral = TRUE]

fallingLeavesShell ==
  [NoOptions EXCEPT !.spreadSize = 420, !.starLife = 2, !.starDensity = 12,
                    !.color = <<INVISIBLE>>, !.glitter = "medium",
                    !.glitterColor = "Gold", !.fallingLeaves = TRUE]

crackleShell ==
  [NoOptions EXCEPT !.spreadSize = 455, !.starLife = 2, !.starDensity = 100,
                    !.color = <<"Gold">>, !.glitter = "light",
                    !.glitterColor = "Gold", !.crackle = TRUE,
                    !.pistilColor = "White"]

strobeShell ==
  [NoOptions EXCEPT !.spreadSize = 372, !.starLife = 5, !.starDensity = 110,
                    !.color = <<"White">>, !.glitter = "light",
                    !.glitterColor = "White", !.strobe = TRUE,
                    !.strobeColor = "White"]

heartShell ==
  [NoOptions EXCEPT !.spreadSize = 400, !.starLife = 4, !.starDensity = 120,
                    !.color = <<"Red">>, !.glitter = "light",
                    !.glitterColor = "Gold", !.heart = TRUE]

starShell ==
  [NoOptions EXCEPT !.spreadSize = 400, !.starLife = 4, !.starDensity = 120,
                    !.color = <<"Gold">>, !.glitter = "light",
                    !.glitterColor = "White", !.starShape = TRUE]

\* crysanthemumShell(size), with the random choices of crysanthemumShell
crysanthemumShellOf(size) ==
  [crysanthemumShell EXCEPT !.shellSize = size,
                            !.spreadSize = 300 + size * 10,
                            !.starLife = (900 + size * 20 + 150) \div 300]

\* thick palm
palmShell ==
  [NoOptions EXCEPT !.spreadSize = 325, !.starLife = 7, !.starDensity = 15,
                    !.color = <<"Gold">>, !.glitter = "thick"]

ringShell ==
  [NoOptions EXCEPT !.spreadSize = 400, !.starLife = 4, !.starCount = 27,
                    !.color = <<"Red">>, !.ring = TRUE, !.pistil = TRUE,
                    !.pistilColor = "White", !.glitterColor = "White"]

willowShell ==
  [NoOptions EXCEPT !.spreadSize = 400, !.starLife = 11, !.starDensity = 60,
                    !.color = <<INVISIBLE>>, !.glitter = "willow",
                    !.glitterColor = "Gold"]

horsetailShell ==
  [NoOptions EXCEPT !.spreadSize = 288, !.starLife = 9, !.starDensity = 90,
                    !.color = <<"Red">>, !.glitter = "medium",
                    !.glitterColor = "Red", !.horsetail = TRUE]

(***************************************************************************)
(* Math.random() as the Shell Catalog and the sequencer draw it: a draw is  *)
(* r / RandomSteps for an r in 0..RandomSteps-1; an operation is given the  *)
(* cycle w.rnd of its draws.                                               *)
(***************************************************************************)
Draws == 0..(RandomSteps - 1)
Random(w) == w.rnd[(w.rptr % Len(w.rnd)) + 1]
Advance(w) ==
  IF w.rptr >= MaxDraws THEN [w EXCEPT !.overflow = TRUE]
  ELSE [w EXCEPT !.rptr = @ + 1]
\* Math.random() < num / den
Below(r, num, den) == r * den < num * RandomSteps
\* Math.floor(Math.random() * n)
Scaled(r, n) == (r * n) \div RandomSteps

\* throw new Error(message), or a TypeError of the runtime
Throw(w, message) == [w EXCEPT !.thrown = message]

(***************************************************************************)
(* ShellSystem: the Shell Catalog.  A factory is held as the recipe it      *)
(* returns for size 1.                                                     *)
(***************************************************************************)
TypeRandom == "Random"

Registrations ==
  <<[name |-> "Crysanthemum", factory |-> crysanthemumShell],
    [name |-> "Ghost", factory |-> ghostShell],
    [name |-> "Strobe", factory |-> strobeShell],
    [name |-> "Palm", factory |-> palmShell],
    [name |-> "Ring", factory |-> ringShell],
    [name |-> "Crossette", factory |-> crossetteShell],
    [name |-> "Floral", factory |-> floralShell],
    [name |-> "Falling Leaves", factory |-> fallingLeavesShell],
    [name |-> "Willow", factory |-> willowShell],
    [name |-> "Crackle", factory |-> crackleShell],
    [name |-> "Horse Tail", factory |-> horsetailShell],
    [name |-> "Heart", factory |-> heartShell],
    [name |-> "Star", factory |-> starShell]>>

\* ShellSystem.register
register(sys, name, factory) ==
  [types |-> (name :> factory) @@ sys.types,
   typeNames |-> IF name # TypeRandom THEN Append(sys.typeNames, name)
                 ELSE sys.typeNames]

RECURSIVE registerAll(_, _)
registerAll(sys, k) ==
  IF k > Len(Registrations) THEN sys
  ELSE registerAll(register(sys, Registrations[k].name, Registrations[k].factory),
                   k + 1)

\* new ShellSystem()
shellSystem ==
  registerAll([types |-> [n \in {} |-> NoOptions], typeNames |-> <<>>], 1)

fastShellBlacklist == <<"Falling Leaves", "Floral", "Willow">>

Registered(name) == name \in DOMAIN shellSystem.types

\* Map.get: a factory, or undefined
MapGet(name) ==
  IF Registered(name)
  THEN [name |-> name, found |-> TRUE, options |-> shellSystem.types[name]]
  ELSE [name |-> name, found |-> FALSE, options |-> NoOptions]

\* the type the second draw of getRandomTypeName selects
SecondDraw(r) ==
  shellSystem.typeNames[Scaled(r, Len(shellSystem.typeNames)) + 1]

\* ShellSystem.getRandomTypeName: [w, name]
getRandomTypeName(w) ==
  IF Below(Random(w), 1, 2)
  THEN [w |-> Advance(w), name |-> "Crysanthemum"]
  ELSE [w |-> Advance(Advance(w)), name |-> SecondDraw(Random(Advance(w)))]

\* what a catalog call returned: appended to the log of the operation
Looked(op, arg, a) ==
  [a EXCEPT !.w.log.lookups =
     Append(@, [op |-> op, arg |-> arg, name |-> a.name, found |-> a.found,
                thrown |-> a.w.thrown])]

\* factory(size) on what Map.get returned: [w, name, found, options]
Call(w, f) ==
  IF w.thrown # "" THEN [w |-> w, name |-> f.name, found |-> FALSE, options |-> NoOptions]
  ELSE IF ~f.found
  THEN [w |-> Throw(w, "TypeError: factory is not a function"),
        name |-> f.name, found |-> FALSE, options |-> NoOptions]
  ELSE [w |-> w, name |-> f.name, found |-> TRUE, options |-> f.options]

\* ShellSystem.createRandomOptions
createRandomOptionsOf(a) == Call(a.w, MapGet(a.name))
createRandomOptions(w) == createRandomOptionsOf(getRandomTypeName(w))

\* ShellSystem.createOptions: [w, name, found, options]
createOptions(w, type) ==
  IF type = TypeRandom THEN createRandomOptions(w)
  ELSE IF ~Registered(type)
       THEN [w |-> Throw(w, "Unknown shell type"),
             name |-> type, found |-> FALSE, options |-> NoOptions]
       ELSE Call(w, MapGet(type))

\* ShellSystem.getConfiguredOptions
getConfiguredOptions(w) ==
  Looked("getConfiguredOptions", w.config.shell,
         createOptions(w, w.config.shell))

InBlacklist(name) ==
  \E k \in 1..Len(fastShellBlacklist) : fastShellBlacklist[k] = name

\* the loop of a getFastFactory that tests nothing
TakeFirstDraw(a) == a

\* the while loop of getFastFactory
RECURSIVE FastTypeName(_)
FastTypeName(a) ==
  IF a.w.overflow \/ ~InBlacklist(a.name) THEN a
  ELSE FastTypeName(getRandomTypeName(a.w))

FastFactoryOf(a) ==
  [w |-> a.w, name |-> a.name, found |-> MapGet(a.name).found,
   options |-> MapGet(a.name).options]

\* ShellSystem.getFastFactory: [w, name, found, options], found = FALSE
\* for undefined
getFastFactory(w) ==
  Looked("getFastFactory", w.config.shell,
         IF w.config.shell = TypeRandom
         THEN FastFactoryOf(FastTypeName(getRandomTypeName(w)))
         ELSE FastFactoryOf([w |-> w, name |-> w.config.shell]))

(***************************************************************************)
(* Simulation: the sequencer.  Delays and Date.now() are in ms, launch      *)
(* positions and heights in thousandths, shell sizes in tenths.            *)
(***************************************************************************)
\* ms in one unit of particle time
MsPerUnit == 300

finaleCount == 32
seqSmallBarrageCooldown == 15000

\* ConfigManager.isRunning
isRunningIgnoringMenu(cfg) == ~cfg.paused

isRunning(cfg) == ~cfg.paused /\ ~cfg.menuOpen

\* Math.random() * n, in whole units
RandomTimes(w, n) == Scaled(Random(w), n)

fitShellPositionH(position) == (640 * position) \div 1000 + 180
fitShellPositionV(position) == (position * 750) \div 1000

\* const x = Math.random() < 0.5 ? 0.5 - centerOffset : 0.5 + centerOffset
ShellSizeX(w, size, height, centerOffset) ==
  [w |-> Advance(w), size |-> size,
   x |-> fitShellPositionH(IF Below(Random(w), 1, 2) THEN 500 - centerOffset
                           ELSE 500 + centerOffset),
   height |-> fitShellPositionV(height)]

\* const centerOffset = Math.random() * (1 - height * 0.65) * 0.5
ShellSizeOffset(w, size, height) ==
  ShellSizeX(Advance(w), size, height,
             (Random(w) * ((1000 - (height * 65) \div 100) \div 2)) \div RandomSteps)

\* Simulation.getRandomShellSize: [w, size, x, height]
getRandomShellSize(w) ==
  LET baseSize == w.device.size
      maxVariance == Min(25, baseSize)
      variance == RandomTimes(w, maxVariance)
  IN IF maxVariance = 0
     THEN ShellSizeOffset(Advance(Advance(w)), baseSize - variance,
                          RandomTimes(Advance(w), 1000))
     ELSE ShellSizeOffset(Advance(w), baseSize - variance,
                          1000 - RandomTimes(w, 1000))

\* shell.setStage and shell.launch(position, launchHeight) on
\* new Shell(a.options), the options a catalog call has handed out
launchShellAt(a, position, height, via) ==
  IF a.w.thrown # "" \/ a.w.overflow THEN a.w
  ELSE [launch(a.w, a.options) EXCEPT
          !.log.launches =
             Append(@, [type |-> a.name, position |-> position,
                        height |-> height, via |-> via,
                        shell |-> Len(a.w.shells) + 1])]

\* a setTimeout that takes its delay in seconds
setTimeoutSeconds(w, callback, delay) ==
  IF w.thrown # "" THEN w
  ELSE [w EXCEPT
          !.timers = Append(@, [callback EXCEPT !.id = w.hist.timersSet + 1,
                                                !.due = w.now + delay * 1000,
                                                !.set = w.now]),
          !.hist.timersSet = @ + 1]

\* setTimeout(callback, delay)
setTimeout(w, callback, delay) ==
  IF w.thrown # "" THEN w
  ELSE [w EXCEPT
          !.timers = Append(@, [callback EXCEPT !.id = w.hist.timersSet + 1,
                                                !.due = w.now + delay,
                                                !.set = w.now]),
          !.hist.timersSet = @ + 1]

\* a callback that launches a shell: kind tells how it gets its recipe and
\* its launch point, offset and height are the values its closure captured
Callback(kind, name, found, options, offset, height) ==
  [id |-> 0, due |-> 0, set |-> 0, kind |-> kind, name |-> name,
   found |-> found, options |-> options, offset |-> offset,
   height |-> height, size |-> 0]

\* a callback that asks getConfiguredOptions for a shell of the size its
\* closure captured
SizedCallback(kind, size, offset) ==
  [Callback(kind, "", FALSE, NoOptions, offset, 0) EXCEPT !.size = size]

\* what a sequence returns: the world it leaves and the delay
Returned(w, delay) == [w |-> w, delay |-> delay]

\* let extraDelay = shell.starLife; if (shell.fallingLeaves) extraDelay = 4600
ExtraDelay(options) ==
  IF options.fallingLeaves THEN 4600 ELSE options.starLife * MsPerUnit

\* return 900 + Math.random() * 600 + extraDelay
RandomDelay(w, extraDelay) ==
  Returned(Advance(w), 900 + RandomTimes(w, 600) + extraDelay)

seqRandomShellWith(s, a) ==
  RandomDelay(launchShellAt(a, s.x, s.height, "seqRandomShell"),
              ExtraDelay(a.options))

seqRandomShellAt(s) == seqRandomShellWith(s, getConfiguredOptions(s.w))

\* Simulation.seqRandomShell
seqRandomShell(w) == seqRandomShellAt(getRandomShellSize(w))

seqRandomFastShellWith(s, a) ==
  RandomDelay(launchShellAt(a, s.x, s.height, "seqRandomFastShell"),
              a.options.starLife * MsPerUnit)

\* new Shell(shellSystem.getFastFactory()(size.size))
FastShell(f) == Call(f.w, f)

seqRandomFastShellAt(s) == seqRandomFastShellWith(s, FastShell(getFastFactory(s.w)))

\* Simulation.seqRandomFastShell
seqRandomFastShell(w) == seqRandomFastShellAt(getRandomShellSize(w))

\* a seqTwoRandom that launches both shells at once
seqTwoRandomLaunchBoth(w, a1, a2, height1, height2, leftOffset, rightOffset) ==
  RandomDelay(
    launchShellAt(
      [a2 EXCEPT !.w = launchShellAt([a1 EXCEPT !.w = w], 300 + leftOffset,
                                     height1, "seqTwoRandom")],
      700 + rightOffset, height2, "seqTwoRandom"),
    IF a1.options.fallingLeaves \/ a2.options.fallingLeaves THEN 4600
    ELSE Max(a1.options.starLife, a2.options.starLife) * MsPerUnit)

\* the end of seqTwoRandom: shell1.launch, setTimeout(shell2.launch, 100)
seqTwoRandomLaunch(w, a1, a2, height1, height2, leftOffset, rightOffset) ==
  RandomDelay(
    setTimeout(launchShellAt([a1 EXCEPT !.w = w], 300 + leftOffset, height1,
                             "seqTwoRandom"),
               Callback("shell", a2.name, a2.found, a2.options,
                        700 + rightOffset, height2),
               100),
    IF a1.options.fallingLeaves \/ a2.options.fallingLeaves THEN 4600
    ELSE Max(a1.options.starLife, a2.options.starLife) * MsPerUnit)

seqTwoRandomOffsets(w, a1, a2, height1, height2) ==
  IF w.thrown # "" THEN Returned(w, 0)
  ELSE seqTwoRandomLaunch(Advance(Advance(w)), a1, a2, height1, height2,
                          RandomTimes(w, 200) - 100,
                          RandomTimes(Advance(w), 200) - 100)

seqTwoRandomSecond(a1, a2, height1, height2) ==
  seqTwoRandomOffsets(a2.w, a1, a2, height1, height2)

seqTwoRandomFirst(a1, height1, height2) ==
  seqTwoRandomSecond(a1, getConfiguredOptions(a1.w), height1, height2)

seqTwoRandomSized(s1, s2) ==
  seqTwoRandomFirst(getConfiguredOptions(s2.w), s1.height, s2.height)

seqTwoRandomFrom(s1) == seqTwoRandomSized(s1, getRandomShellSize(s1.w))

\* Simulation.seqTwoRandom
seqTwoRandom(w) == seqTwoRandomFrom(getRandomShellSize(w))

\* the two delayed launches of seqTriple
seqTripleTimers(w, f) ==
  Returned(
    setTimeout(
      setTimeout(Advance(Advance(w)),
                 Callback("factory", f.name, f.found, f.options, 200, 100),
                 1000 + RandomTimes(w, 400)),
      Callback("factory", f.name, f.found, f.options, 800, 100),
      1000 + RandomTimes(Advance(w), 400)),
    4000)

seqTripleFirst(w, f, a) ==
  IF a.w.thrown # "" THEN Returned(a.w, 0)
  ELSE seqTripleTimers(
         Advance(launchShellAt(a, 500 + RandomTimes(a.w, 80) - 40, 700,
                               "seqTriple")),
         f)

seqTripleWith(f) == seqTripleFirst(f.w, f, Call(f.w, f))

\* Simulation.seqTriple
seqTriple(w) == seqTripleWith(getFastFactory(w))

\* a pyramid loop that stops before the large shell
RECURSIVE PyramidLoopBelow(_, _, _, _)
PyramidLoopBelow(w, count, delay, barrageCountHalf) ==
  IF count >= barrageCountHalf THEN w
  ELSE PyramidLoopBelow(
         setTimeout(
           setTimeout(Advance(w),
                      SizedCallback("pyramidLeft", Max(0, w.device.size - 30),
                                    (count * 500) \div barrageCountHalf),
                      delay),
           SizedCallback("pyramidRight", Max(0, w.device.size - 30),
                         (count * 500) \div barrageCountHalf),
           delay + RandomTimes(w, 30) + 30),
         count + 1, delay + 200, barrageCountHalf)

\* the while loop of seqPyramid
RECURSIVE PyramidLoop(_, _, _, _)
PyramidLoop(w, count, delay, barrageCountHalf) ==
  IF count > barrageCountHalf THEN w
  ELSE IF count = barrageCountHalf
  THEN PyramidLoop(
         setTimeout(w, [SizedCallback("pyramidTop", w.device.size, 500)
                          EXCEPT !.height = 750],
                    delay),
         count + 1, delay + 200, barrageCountHalf)
  ELSE PyramidLoop(
         setTimeout(
           setTimeout(Advance(w),
                      SizedCallback("pyramidLeft", Max(0, w.device.size - 30),
                                    (count * 500) \div barrageCountHalf),
                      delay),
           SizedCallback("pyramidRight", Max(0, w.device.size - 30),
                         (count * 500) \div barrageCountHalf),
           delay + RandomTimes(w, 30) + 30),
         count + 1, delay + 200, barrageCountHalf)

\* Simulation.seqPyramid
seqPyramid(w) ==
  LET barrageCountHalf == IF w.device.desktop THEN 7 ELSE 4
  IN Returned(PyramidLoop(w, 0, 0, barrageCountHalf),
              3400 + barrageCountHalf * 250)

\* (Math.cos(position * 5 * Math.PI + PI_HALF) + 1) / 2 * 0.75, the angle
\* rounded to a multiple of pi/2
BarrageHeight(position) ==
  ((Cos((position * 10 + 500) \div 1000 + 1) + 1) * 750) \div 2

\* a barrage loop that runs while count <= barrageCount
RECURSIVE BarrageLoopThrough(_, _, _, _)
BarrageLoopThrough(w, count, delay, barrageCount) ==
  IF count > barrageCount \/ w.thrown # "" THEN w
  ELSE IF count = 0
  THEN BarrageLoopThrough(launchShellAt(getConfiguredOptions(w), 500,
                                        BarrageHeight(500), "seqSmallBarrage"),
                          count + 1, delay + 200, barrageCount)
  ELSE BarrageLoopThrough(
         setTimeout(
           setTimeout(Advance(w),
                      SizedCallback("barrageRight", Max(0, w.device.size - 20),
                                    ((count + 1) * 500) \div barrageCount),
                      delay),
           SizedCallback("barrageLeft", Max(0, w.device.size - 20),
                         ((count + 1) * 500) \div barrageCount),
           delay + RandomTimes(w, 30) + 30),
         count + 2, delay + 200, barrageCount)

\* the while loop of seqSmallBarrage
RECURSIVE BarrageLoop(_, _, _, _)
BarrageLoop(w, count, delay, barrageCount) ==
  IF count >= barrageCount \/ w.thrown # "" THEN w
  ELSE IF count = 0
  THEN BarrageLoop(launchShellAt(getConfiguredOptions(w), 500,
                                 BarrageHeight(500), "seqSmallBarrage"),
                   count + 1, delay + 200, barrageCount)
  ELSE BarrageLoop(
         setTimeout(
           setTimeout(Advance(w),
                      SizedCallback("barrageRight", Max(0, w.device.size - 20),
                                    ((count + 1) * 500) \div barrageCount),
                      delay),
           SizedCallback("barrageLeft", Max(0, w.device.size - 20),
                         ((count + 1) * 500) \div barrageCount),
           delay + RandomTimes(w, 30) + 30),
         count + 2, delay + 200, barrageCount)

\* Simulation.seqSmallBarrage
seqSmallBarrage(w) ==
  LET barrageCount == IF w.device.desktop THEN 11 ELSE 5
  IN Returned(
       BarrageLoop([w EXCEPT !.sim.seqSmallBarrageLastCalled = w.now,
                             !.hist.barrages = Append(@, w.now)],
                   0, 0, barrageCount),
       3400 + barrageCount * 120)

\* a cooldown test that always passes
CooledDownAlways(w) == TRUE

\* Date.now() - this.seqSmallBarrageLastCalled > this.seqSmallBarrageCooldown
CooledDown(w) ==
  w.now - w.sim.seqSmallBarrageLastCalled > seqSmallBarrageCooldown

\* an isFirstSeq flag that is never cleared
ClearFirstSeqNever(w) == w

\* this.isFirstSeq = false
ClearFirstSeq(w) == [w EXCEPT !.sim.isFirstSeq = FALSE]

\* the opening sequence of startSequence
seqOpening(w) ==
  IF w.device.header THEN seqTwoRandom(w)
  ELSE Returned(launchShellAt(createOptions(w, "Crysanthemum"), 500, 500,
                              "opening"),
                2400)

\* the finale branch of startSequence after seqRandomFastShell has returned
finaleStep(a) ==
  IF a.w.thrown # "" THEN a
  ELSE IF a.w.sim.currentFinaleCount < finaleCount
  THEN Returned([a.w EXCEPT !.sim.currentFinaleCount = @ + 1], 170)
  ELSE Returned([a.w EXCEPT !.sim.currentFinaleCount = 0], 6000)

\* a selection that takes the single shell in header mode too
seqBranchInHeader(w, rand) ==
  IF Below(rand, 8, 100) /\ CooledDown(w) THEN "seqSmallBarrage"
  ELSE IF Below(rand, 1, 10) THEN "seqPyramid"
  ELSE IF Below(rand, 6, 10) THEN "seqRandomShell"
  ELSE IF Below(rand, 8, 10) THEN "seqTwoRandom"
  ELSE "seqTriple"

\* the sequence the draw rand of startSequence selects
seqBranch(w, rand) ==
  IF Below(rand, 8, 100) /\ CooledDown(w) THEN "seqSmallBarrage"
  ELSE IF Below(rand, 1, 10) THEN "seqPyramid"
  ELSE IF Below(rand, 6, 10) /\ ~w.device.header THEN "seqRandomShell"
  ELSE IF Below(rand, 8, 10) THEN "seqTwoRandom"
  ELSE "seqTriple"

seqRun(w, branch) ==
  CASE branch = "seqSmallBarrage" -> seqSmallBarrage(w)
    [] branch = "seqPyramid" -> seqPyramid(w)
    [] branch = "seqRandomShell" -> seqRandomShell(w)
    [] branch = "seqTwoRandom" -> seqTwoRandom(w)
    [] branch = "seqTriple" -> seqTriple(w)

\* the random choice of startSequence; rand is the draw, w the world after it
seqChoice(w, rand) == seqRun(w, seqBranch(w, rand))

\* the branch a startSequence call takes
BranchOf(w) ==
  IF w.sim.isFirstSeq THEN "opening"
  ELSE IF w.config.finale THEN "finale"
  ELSE seqBranch(w, Random(w))

\* the record of a startSequence call, kept in the log of the operation;
\* launched are the shells the call launched, cycle the shells the finale
\* has launched since its last long pause
SequencedAs(w0, a, branch, launched) ==
  [a EXCEPT
     !.w.hist.seqCalls = @ + 1,
     !.w.hist.cycle = IF branch # "finale" \/ a.delay = 6000 THEN 0
                      ELSE @ + launched,
     !.w.hist.pauses = IF branch = "finale" /\ a.delay = 6000 THEN @ + 1 ELSE @,
     !.w.log.seq =
        Append(@, [branch |-> branch, delay |-> a.delay,
                   call |-> w0.hist.seqCalls + 1,
                   cycle |-> w0.hist.cycle + launched,
                   now |-> w0.now,
                   rand |-> Random(w0),
                   last |-> w0.sim.seqSmallBarrageLastCalled,
                   launched |-> launched,
                   scheduled |-> a.w.hist.timersSet - w0.hist.timersSet,
                   thrown |-> a.w.thrown])]

Sequenced(w0, a) ==
  SequencedAs(w0, a, BranchOf(w0),
              Len(a.w.log.launches) - Len(w0.log.launches))

\* Simulation.startSequence: [w, delay]
startSequence(w) ==
  Sequenced(w,
    IF w.sim.isFirstSeq THEN seqOpening(ClearFirstSeq(w))
    ELSE IF w.config.finale THEN finaleStep(seqRandomFastShell(w))
    ELSE seqChoice(Advance(w), Random(w)))

\* a countdown of the reported delay itself
AfterSequenceUnscaled(a) ==
  IF a.w.thrown # "" THEN a.w
  ELSE [a.w EXCEPT !.sim.autoLaunchTime = a.delay * 4]

\* this.autoLaunchTime = this.startSequence() * 1.25, in quarters of a ms
AfterSequence(a) ==
  IF a.w.thrown # "" THEN a.w
  ELSE [a.w EXCEPT !.sim.autoLaunchTime = a.delay * 5]

\* the auto launch of Simulation.update; t is autoLaunchTime - timeStep
autoLaunchAt(w, t) ==
  IF t > 0 THEN [w EXCEPT !.sim.autoLaunchTime = t]
  ELSE IF w.hist.seqCalls >= w.hist.maxSeqCalls THEN [w EXCEPT !.overflow = TRUE]
  ELSE AfterSequence(startSequence([w EXCEPT !.sim.autoLaunchTime = t]))

\* the record of the auto launch of an update call between worlds w and w1;
\* timeStep is in ms
autoLaunchLogged(w, w1, timeStep) ==
  LET on == w.config.autoLaunch
      started == w1.hist.seqCalls > w.hist.seqCalls
      acc == IF on THEN w.hist.sinceReport + timeStep
             ELSE w.hist.sinceReport
  IN IF w1.overflow THEN w1 ELSE
       [w1 EXCEPT
          !.hist.sinceReport = IF started THEN 0 ELSE acc,
          !.hist.reported = IF started THEN Last(w1.log.seq).delay ELSE @,
          !.log.auto =
             Append(@, [on |-> on, acc |-> acc, d |-> w.hist.reported,
                        started |-> started, timeStep |-> timeStep,
                        t0 |-> w.sim.autoLaunchTime,
                        t1 |-> w1.sim.autoLaunchTime])]

\* the auto launch of Simulation.update with a timeStep of ms milliseconds
autoLaunchStep(w, ms) ==
  IF ~w.config.autoLaunch THEN autoLaunchLogged(w, w, ms)
  ELSE autoLaunchLogged(w, autoLaunchAt(w, w.sim.autoLaunchTime - ms * 4), ms)

\* Simulation.update: an exception of startSequence ends it
simulationUpdateFrom(w, timeStep) ==
  IF w.thrown # "" \/ w.overflow THEN w ELSE update(w, timeStep, w.frame)

\* Simulation.update(timeStep, speed): the timeStep is ms milliseconds, of
\* which the particles get timeStep whole units
simulationUpdate(w, ms, timeStep) ==
  simulationUpdateFrom(autoLaunchStep([w EXCEPT !.frame = @ + 1], ms), timeStep)

\* Renderer.render, reached when Simulation.update has returned
renderAfter(w) == IF w.thrown # "" \/ w.overflow THEN w ELSE renderFlashes(w)

\* App.update(frameTime, lag) with a frameTime of ms milliseconds, of which
\* the particles get timeStep whole units
appUpdateMs(w, ms, timeStep) ==
  IF ~isRunning(w.config)
  THEN [w EXCEPT !.log.op = "idle", !.hist.idleTicks = @ + 1]
  ELSE renderAfter(simulationUpdate([w EXCEPT !.log.op = "frame"],
                                    ms * simSpeed, timeStep * simSpeed))

\* App.update(frameTime, lag) with a frameTime of ft whole units
appUpdate(w, ft) == appUpdateMs(w, ft * MsPerUnit, ft)

\* the frame time frameHandler passes on, from timestamp - lastTimestamp
CappedFrameTime(elapsed) ==
  IF elapsed < 0 THEN 17
  ELSE IF elapsed > FrameCapMs THEN FrameCapMs
  ELSE elapsed

\* the whole units of particle time in ms more milliseconds, carry being
\* the milliseconds left over so far
WholeUnits(carry, ms) == (carry + ms) \div MsPerUnit

\* the Ticker's frameHandler(timestamp) with App.update as its listener
frameHandlerAfter(w, timestamp, ms) ==
  [appUpdateMs(w, ms, WholeUnits(w.sim.carry, ms)) EXCEPT
     !.sim.lastTimestamp = timestamp,
     !.sim.carry = (w.sim.carry + ms) % MsPerUnit]

frameHandler(w, timestamp) ==
  frameHandlerAfter(w, timestamp, CappedFrameTime(timestamp - w.sim.lastTimestamp))

\* the launch point a delayed callback computes: [position, height]
CallbackPoint(w, t) ==
  CASE t.kind = "shell" -> [position |-> t.offset, height |-> t.height]
    [] t.kind = "factory" ->
         [position |-> t.offset + RandomTimes(w, 80) - 40, height |-> t.height]
    [] t.kind = "pyramidTop" -> [position |-> 500, height |-> 750]
    [] t.kind = "pyramidLeft" ->
         [position |-> t.offset,
          height |-> ((IF t.offset <= 500 THEN t.offset * 2
                       ELSE (1000 - t.offset) * 2) * 42) \div 100]
    [] t.kind = "pyramidRight" ->
         [position |-> 1000 - t.offset,
          height |-> ((IF 1000 - t.offset <= 500 THEN (1000 - t.offset) * 2
                       ELSE t.offset * 2) * 42) \div 100]
    [] t.kind = "barrageRight" ->
         [position |-> 500 + t.offset, height |-> BarrageHeight(500 + t.offset)]
    [] t.kind = "barrageLeft" ->
         [position |-> 500 - t.offset, height |-> BarrageHeight(500 - t.offset)]

\* the recipe a delayed callback launches: the shell or the factory its
\* closure holds, or what getConfiguredOptions returns when it runs
CallbackOptions(w, t) ==
  CASE t.kind = "shell" ->
         [w |-> w, name |-> t.name, found |-> t.found, options |-> t.options]
    [] t.kind = "factory" -> Call(w, t)
    [] OTHER -> getConfiguredOptions(w)

CallbackLaunch(a, point, t) ==
  launchShellAt(IF t.kind = "factory" THEN [a EXCEPT !.w = Advance(a.w)] ELSE a,
                point.position, point.height, t.kind)

\* the callback of timer t runs
runCallback(w, t) ==
  [CallbackLaunch(CallbackOptions(w, t), CallbackPoint(w, t), t) EXCEPT
     !.hist.fired = Append(@, t.id),
     !.log.fired = Append(@, [id |-> t.id, due |-> t.due, now |-> w.now,
                              offset |-> t.offset, size |-> t.size,
                              kind |-> t.kind,
                              running |-> isRunning(w.config)])]

(***************************************************************************)
(* The state machine                                                       *)
(***************************************************************************)
\* the frame times a run may have
FrameTimes == {1, MaxTimeStep}

\* DEFAULT_STATE after App.start(), with the menu's autoLaunch and finale
\* switches and its shell type as given
ConfigOf(shell, autoLaunch, finale) ==
  [shell |-> shell, autoLaunch |-> autoLaunch, finale |-> finale,
   paused |-> FALSE, menuOpen |-> FALSE]

\* new Simulation()
SimulationNew ==
  [isFirstSeq |-> TRUE, currentFinaleCount |-> 0, autoLaunchTime |-> 0,
   seqSmallBarrageLastCalled |-> 0,
   lastTimestamp |-> 0,  \* of the Ticker
   carry |-> 0]          \* ms of timeStep the particles have not got yet

NoHistory ==
  [maxFrames |-> MaxFrames,  \* frames the run lasts
   maxStars |-> MaxStars,    \* Star instances the run may create
   maxSparks |-> MaxSparks,  \* Spark instances the run may create
   maxArc |-> MaxParts,      \* factory calls a createParticleArc call may make
   maxSeqCalls |-> 0,   \* startSequence calls the run lasts
   seqCalls |-> 0,      \* startSequence calls
   clicks |-> 0,        \* clicks on the canvas
   ticks |-> 0,         \* steps of the wall clock
   idleTicks |-> 0,     \* ticker events while not running
   toggles |-> 0,       \* pause and menu toggles
   preallocs |-> 0,     \* preallocate calls
   flashCalls |-> 0,    \* addFlash and popFlash calls made between frames
   sizeChanges |-> 0,   \* changes of the configured shell size
   cycle |-> 0,         \* shells the finale has launched since its last long pause
   pauses |-> 0,        \* long pauses of the finale
   barrages |-> <<>>,   \* Date.now() at each small barrage start
   timersSet |-> 0,     \* setTimeout calls
   reported |-> 0,      \* the delay the last sequence has reported, in ms
   sinceReport |-> 0,   \* ms of timeStep passed with autoLaunch on since then
   died |-> {},         \* crossette and crackle callbacks that have run
   deathSounds |-> <<>>, \* sounds played in them: [ref, sound]
   fired |-> <<>>]      \* ids of the timers whose callback has run

NoProbe ==
  [op |-> "none", arg |-> "", rnd |-> <<>>, name |-> "", found |-> FALSE,
   thrown |-> ""]

\* the application state once App.start() has run, for a run that lasts
\* the given numbers of frames and of startSequence calls
InitRun(cfg, dev, frames, calls) ==
  /\ config = cfg
  /\ device = dev
  /\ sim = SimulationNew
  /\ now = 0
  /\ timers = <<>>
  /\ hist = [NoHistory EXCEPT !.maxFrames = frames, !.maxSeqCalls = calls]
  /\ probe = NoProbe

InitAppWith(cfg, dev) == InitRun(cfg, dev, MaxFrames, 0)

\* IS_DESKTOP, IS_HEADER and the default shell size of the device
Desktop == [desktop |-> TRUE, header |-> FALSE, size |-> 30]
Header == [desktop |-> TRUE, header |-> TRUE, size |-> 12]
Mobile == [desktop |-> FALSE, header |-> FALSE, size |-> 20]

\* new ParticleSystem()
InitParticles ==
  /\ stars = <<>>
  /\ activeStars = [c \in Buckets |-> <<>>]
  /\ starPool = <<>>
  /\ sparks = <<>>
  /\ activeSparks = [c \in Buckets |-> <<>>]
  /\ sparkPool = <<>>
  /\ activeFlashes = <<>>
  /\ flashPool = 0
  /\ shells = <<>>
  /\ played = {}
  /\ nBursts = 0
  /\ currentFrame = 0
  /\ removes = 0
  /\ log = EmptyLog

\* new ParticleSystem(), and the frame time of the run
InitStore ==
  /\ InitParticles
  /\ frameTime \in FrameTimes

\* a run that launches by hand: autoLaunch is switched off
Init ==
  /\ InitAppWith(ConfigOf("Crysanthemum", FALSE, FALSE), Desktop)
  /\ InitStore

Commit(w) ==
  /\ ~w.overflow
  /\ ~w.error
  /\ stars' = w.stars
  /\ activeStars' = w.activeStars
  /\ starPool' = w.starPool
  /\ sparks' = w.sparks
  /\ activeSparks' = w.activeSparks
  /\ sparkPool' = w.sparkPool
  /\ activeFlashes' = w.activeFlashes
  /\ flashPool' = w.flashPool
  /\ shells' = w.shells
  /\ played' = w.played
  /\ nBursts' = w.nBursts
  /\ log' = w.log

\* what an operation of the application leaves behind; the state changes
\* it made before an exception are kept
CommitApp(w) ==
  /\ Commit(w)
  /\ sim' = w.sim
  /\ timers' = w.timers
  /\ hist' = w.hist

Seeds == 0..RandBits

\* Simulation.launchShell / launchShellFromClick with the given recipe
LaunchShell(options, seed) ==
  /\ isRunning(config)
  /\ Len(shells) < MaxShells
  /\ Commit(launch([World EXCEPT !.seed = seed, !.log.op = "launch"], options))
  /\ UNCHANGED <<currentFrame, removes, frameTime>>
  /\ UNCHANGED appVars

\* the ticker event: App.update(frameTime, lag); rnd are the draws of the
\* sequencer
UpdateWith(w) ==
  /\ CommitApp(w)
  /\ currentFrame' = w.frame
  /\ UNCHANGED <<removes, frameTime>>
  /\ UNCHANGED <<config, device, now, probe>>

Update(seed, rnd) ==
  /\ IF isRunning(config) THEN currentFrame < hist.maxFrames
     ELSE hist.idleTicks < MaxIdleTicks
  /\ UpdateWith(appUpdate([World EXCEPT !.seed = seed, !.rnd = rnd], frameTime))

\* a frame of a run that launches by hand
Frame(seed) == Update(seed, <<0>>)

\* the click on the canvas: InputManager.handlePointerStart,
\* Simulation.launchShellFromClick
ClickWith(a) ==
  /\ CommitApp([launchShellAt(a, 500, 500, "click") EXCEPT !.hist.clicks = @ + 1])
  /\ UNCHANGED <<currentFrame, removes, frameTime>>
  /\ UNCHANGED <<config, device, now, probe>>

Click(seed, rnd) ==
  /\ isRunning(config)
  /\ hist.clicks < MaxClicks
  /\ ClickWith(getConfiguredOptions([World EXCEPT !.seed = seed, !.rnd = rnd,
                                                   !.log.op = "click"]))

\* the pending timer the event loop runs next: the one due first
NextTimer ==
  CHOOSE k \in 1..Len(timers) :
    \A j \in 1..Len(timers) :
      timers[k].due < timers[j].due
        \/ (timers[k].due = timers[j].due /\ timers[k].id <= timers[j].id)

\* a delayed callback runs once its delay has expired, whether or not the
\* simulation is running
TimerFireWith(w, k) ==
  /\ CommitApp(runCallback([w EXCEPT !.timers = RemoveAt(@, k)], timers[k]))
  /\ UNCHANGED <<currentFrame, removes, frameTime>>
  /\ UNCHANGED <<config, device, now, probe>>

TimerFire(seed, rnd) ==
  /\ timers # <<>>
  /\ timers[NextTimer].due <= now
  /\ TimerFireWith([World EXCEPT !.seed = seed, !.rnd = rnd, !.log.op = "timer"],
                   NextTimer)

\* a pending timer is due by wall-clock time t
DueBy(t) == \E k \in 1..Len(timers) : timers[k].due <= t

\* the animation frame that comes gap ms of wall-clock time from now, the
\* delayed callbacks due by then having run: frameHandler(timestamp)
ClockFrameWith(w) ==
  /\ now' = w.now
  /\ CommitApp(w)
  /\ currentFrame' = w.frame
  /\ UNCHANGED <<removes, frameTime>>
  /\ UNCHANGED <<config, device, probe>>

ClockFrame(gap, rnd) ==
  /\ currentFrame < hist.maxFrames
  /\ ~DueBy(now + gap)
  /\ ClockFrameWith(frameHandler([World EXCEPT !.rnd = rnd, !.now = now + gap],
                                 now + gap))

\* the delayed callback due first runs when its delay expires
ClockTimerAt(w, k) ==
  /\ now' = w.now
  /\ CommitApp(runCallback([w EXCEPT !.timers = RemoveAt(@, k)], timers[k]))
  /\ UNCHANGED <<currentFrame, removes, frameTime>>
  /\ UNCHANGED <<config, device, probe>>

ClockTimer(rnd) ==
  /\ timers # <<>>
  /\ ClockTimerAt([World EXCEPT !.rnd = rnd, !.log.op = "timer",
                                !.now = Max(now, timers[NextTimer].due)],
                  NextTimer)

\* wall-clock time passes
Tick ==
  /\ hist.ticks < MaxTicks
  /\ now' = now + TickMs
  /\ hist' = [hist EXCEPT !.ticks = @ + 1]
  /\ log' = [EmptyLog EXCEPT !.op = "tick"]
  /\ UNCHANGED storeVars
  /\ UNCHANGED <<currentFrame, removes, frameTime>>
  /\ UNCHANGED <<config, device, sim, timers, probe>>

\* a pause that clears the pending timers
TogglePauseClearingTimers ==
  /\ hist.toggles < MaxToggles
  /\ config' = [config EXCEPT !.paused = ~@]
  /\ hist' = [hist EXCEPT !.toggles = @ + 1]
  /\ log' = [EmptyLog EXCEPT !.op = "togglePause"]
  /\ timers' = <<>>
  /\ UNCHANGED storeVars
  /\ UNCHANGED <<currentFrame, removes, frameTime>>
  /\ UNCHANGED <<device, sim, now, probe>>

\* ConfigManager.togglePause()
TogglePause ==
  /\ hist.toggles < MaxToggles
  /\ config' = [config EXCEPT !.paused = ~@]
  /\ hist' = [hist EXCEPT !.toggles = @ + 1]
  /\ log' = [EmptyLog EXCEPT !.op = "togglePause"]
  /\ UNCHANGED storeVars
  /\ UNCHANGED <<currentFrame, removes, frameTime>>
  /\ UNCHANGED <<device, sim, now, timers, probe>>

\* the autoLaunch checkbox of the menu
ToggleAutoLaunch ==
  /\ hist.toggles < MaxToggles
  /\ config' = [config EXCEPT !.autoLaunch = ~@]
  /\ hist' = [hist EXCEPT !.toggles = @ + 1]
  /\ log' = [EmptyLog EXCEPT !.op = "toggleAutoLaunch"]
  /\ UNCHANGED storeVars
  /\ UNCHANGED <<currentFrame, removes, frameTime>>
  /\ UNCHANGED <<device, sim, now, timers, probe>>

\* ConfigManager.toggleMenu()
ToggleMenu ==
  /\ hist.toggles < MaxToggles
  /\ config' = [config EXCEPT !.menuOpen = ~@]
  /\ hist' = [hist EXCEPT !.toggles = @ + 1]
  /\ log' = [EmptyLog EXCEPT !.op = "toggleMenu"]
  /\ UNCHANGED storeVars
  /\ UNCHANGED <<currentFrame, removes, frameTime>>
  /\ UNCHANGED <<device, sim, now, timers, probe>>

\* ParticleSystem.removeStar(star) on a star a caller got from addStar
RemoveStar(color, i) ==
  /\ removes < MaxRemoves
  /\ i \in 1..Len(activeStars[color])
  /\ Commit(removeStar([World EXCEPT !.log.op = "removeStar"],
                       activeStars[color][i]))
  /\ removes' = removes + 1
  /\ UNCHANGED <<currentFrame, frameTime>>
  /\ UNCHANGED appVars

\* ParticleSystem.removeStar(star) with any reference addStar has returned,
\* live or not
RemoveStarRef(id) ==
  /\ removes < MaxRemoves
  /\ id \in 1..Len(stars)
  /\ stars[id].use > 0
  /\ Commit(removeStar([World EXCEPT !.log.op = "removeStar"], id))
  /\ removes' = removes + 1
  /\ UNCHANGED <<currentFrame, frameTime>>
  /\ UNCHANGED appVars

\* ParticleSystem.removeSpark(spark) with any reference addSpark has
\* returned, live or not
RemoveSparkRef(id) ==
  /\ removes < MaxRemoves
  /\ id \in 1..Len(sparks)
  /\ sparks[id].use > 0
  /\ Commit(removeSpark([World EXCEPT !.log.op = "removeSpark"], id))
  /\ removes' = removes + 1
  /\ UNCHANGED <<currentFrame, frameTime>>
  /\ UNCHANGED appVars

\* Simulation.launchShell in a run of several shells
LaunchEffectShell(options, seed) ==
  /\ isRunning(config)
  /\ Len(shells) < MaxSoundShells
  /\ Commit(launch([World EXCEPT !.seed = seed, !.log.op = "launch"], options))
  /\ UNCHANGED <<currentFrame, removes, frameTime>>
  /\ UNCHANGED appVars

\* starPool.preallocate(count)
Preallocate(count) ==
  /\ hist.preallocs < MaxPreallocs
  /\ Commit(StarPreallocate([World EXCEPT !.log.op = "preallocate"], count))
  /\ hist' = [hist EXCEPT !.preallocs = @ + 1]
  /\ UNCHANGED <<currentFrame, removes, frameTime>>
  /\ UNCHANGED <<config, device, sim, now, timers, probe>>

\* particleSystem.addFlash(x, y, radius), called between two frames
AddFlash(x, y, radius) ==
  /\ hist.flashCalls < MaxFlashCalls
  /\ Commit(addFlash([World EXCEPT !.log.op = "addFlash"], x, y, radius))
  /\ hist' = [hist EXCEPT !.flashCalls = @ + 1]
  /\ UNCHANGED <<currentFrame, removes, frameTime>>
  /\ UNCHANGED <<config, device, sim, now, timers, probe>>

\* particleSystem.popFlash(), called between two frames
PopFlash ==
  /\ hist.flashCalls < MaxFlashCalls
  /\ Commit(popFlash([World EXCEPT !.log.op = "popFlash"]))
  /\ hist' = [hist EXCEPT !.flashCalls = @ + 1]
  /\ UNCHANGED <<currentFrame, removes, frameTime>>
  /\ UNCHANGED <<config, device, sim, now, timers, probe>>

\* seqRandomShell with the Crysanthemum factory: getRandomShellSize, then
\* new Shell(factory(size.size)), setStage and launch
LaunchSizedAt(s) ==
  /\ Commit(launch(s.w, crysanthemumShellOf(s.size)))
  /\ UNCHANGED <<currentFrame, removes, frameTime>>
  /\ UNCHANGED appVars

LaunchSized(seed, rnd) ==
  /\ isRunning(config)
  /\ shells = <<>>
  /\ LaunchSizedAt(getRandomShellSize([World EXCEPT !.seed = seed, !.rnd = rnd,
                                                    !.log.op = "launch"]))

\* the shell size select of the menu: configManager.update({ size })
SetSize(size) ==
  /\ hist.sizeChanges < MaxSizeChanges
  /\ size # device.size
  /\ device' = [device EXCEPT !.size = size]
  /\ hist' = [hist EXCEPT !.sizeChanges = @ + 1]
  /\ log' = [EmptyLog EXCEPT !.op = "setSize"]
  /\ UNCHANGED storeVars
  /\ UNCHANGED <<currentFrame, removes, frameTime>>
  /\ UNCHANGED <<config, sim, now, timers, probe>>

\* what the caller of addStar sets on the star it got back
Customised(a, c) ==
  [a.w EXCEPT !.stars[a.id].sparkFreq = c.sparkFreq,
              !.stars[a.id].secondColor = c.secondColor,
              !.stars[a.id].transitionTime = c.transitionTime,
              !.stars[a.id].strobe = c.strobe,
              !.stars[a.id].strobeFreq = c.strobeFreq]

\* particleSystem.addStar(options) by a caller that customises the star, as
\* launch() and the factories of burst() do
AddCustomStar(o, c) ==
  /\ Len(stars) < MaxCustomStars
  /\ Commit(Customised(addStar([World EXCEPT !.log.op = "addStar"], o), c))
  /\ UNCHANGED <<currentFrame, removes, frameTime>>
  /\ UNCHANGED appVars

\* a launch while no shell has been launched yet
LaunchOne(options, seed) ==
  /\ shells = <<>>
  /\ LaunchShell(options, seed)

\* a frame while no shell has burst yet
FrameToBurst(seed) ==
  /\ nBursts = 0
  /\ Frame(seed)

Recipes == {crysanthemumShell, ghostShell, crossetteShell,
            fallingLeavesShell, crackleShell, strobeShell}

Next ==
  \/ \E options \in Recipes, seed \in Seeds : LaunchShell(options, seed)
  \/ \E seed \in Seeds : Frame(seed)

Spec == Init /\ [][Next]_vars

\* one shell, frames, and removeStar calls on live stars
RemoveRecipes == {crysanthemumShell, crossetteShell, floralShell}

NextRemove ==
  \/ \E options \in RemoveRecipes, seed \in Seeds : LaunchOne(options, seed)
  \/ \E seed \in Seeds : Frame(seed)
  \/ \E color \in Buckets, i \in 1..MaxStars : RemoveStar(color, i)

SpecRemove == Init /\ [][NextRemove]_vars

\* one shell, frames, and removeStar and removeSpark calls with any
\* reference a caller holds
NextHeld ==
  \/ \E options \in RemoveRecipes, seed \in Seeds : LaunchOne(options, seed)
  \/ \E seed \in Seeds : Frame(seed)
  \/ \E id \in 1..MaxStars : RemoveStarRef(id)
  \/ \E id \in 1..MaxSparks : RemoveSparkRef(id)

SpecHeld == Init /\ [][NextHeld]_vars

\* the star pool under one launch, frames and preallocate
PoolRecipes == {crossetteShell}

NextPool ==
  \/ \E options \in PoolRecipes, seed \in Seeds : LaunchOne(options, seed)
  \/ \E seed \in Seeds : Frame(seed)
  \/ \E count \in 1..MaxPrealloc : Preallocate(count)

SpecPool == Init /\ [][NextPool]_vars

\* the flash queue under one launch, frames, and addFlash and popFlash calls
\* made between the frames
FlashRecipes == {crysanthemumShell, floralShell}
FlashRadii == {EffectFlashRadius, 100}

InitFlash ==
  /\ InitRun(ConfigOf("Crysanthemum", FALSE, FALSE), Desktop, MaxFlashFrames, 0)
  /\ InitStore

NextFlash ==
  \/ \E options \in FlashRecipes, seed \in Seeds : LaunchOne(options, seed)
  \/ \E seed \in Seeds : Frame(seed)
  \/ \E radius \in FlashRadii : AddFlash(LaunchX, 0, radius)
  \/ PopFlash

SpecFlash == InitFlash /\ [][NextFlash]_vars

\* stars a caller adds and customises, and frames: sparkling stars with and
\* without a fade to the invisible colour, strobe stars with and without a
\* second colour
NoCustom ==
  [sparkFreq |-> 0, secondColor |-> Undefined, transitionTime |-> 0,
   strobe |-> FALSE, strobeFreq |-> 0]

SparkCustoms ==
  {[NoCustom EXCEPT !.sparkFreq = f, !.secondColor = c, !.transitionTime = t] :
     f \in {0, 1}, c \in {Undefined, INVISIBLE}, t \in {3}}

StrobeCustoms ==
  {[NoCustom EXCEPT !.strobe = TRUE, !.strobeFreq = q, !.secondColor = c,
                    !.transitionTime = 4] :
     q \in {1, 2}, c \in {Undefined, INVISIBLE, "Gold"}}
    \cup {[NoCustom EXCEPT !.strobe = TRUE, !.strobeFreq = 1]}

CustomStarOptions == {StarOptions(LaunchX, 0, "Red", 0, 1, 5, 0, 0)}

NextStar ==
  \/ \E o \in CustomStarOptions, c \in SparkCustoms \cup StrobeCustoms :
       AddCustomStar(o, c)
  \/ \E seed \in Seeds : Frame(seed)

SpecStar == Init /\ [][NextStar]_vars

\* the burst sound: one shell of a random size, frames up to its burst, and
\* the size select of the menu
SelectableSizes == {0, 10, 20, 30, 40, 50}
SizeDraws == {<<0>>, <<6>>, <<12>>}

InitSound ==
  /\ \E size \in SelectableSizes :
       InitRun(ConfigOf("Crysanthemum", FALSE, FALSE),
               [Desktop EXCEPT !.size = size], MaxSoundFrames, 0)
  /\ InitStore

NextSound ==
  \/ \E seed \in Seeds, rnd \in SizeDraws : LaunchSized(seed, rnd)
  \/ \E seed \in Seeds : FrameToBurst(seed)
  \/ \E size \in SelectableSizes : SetSize(size)

SpecSound == InitSound /\ [][NextSound]_vars

\* the finale: auto launch with the finale switch on; long frames, so that
\* every frame starts a sequence
FinaleShells == {"Crysanthemum", TypeRandom}
FinaleDraws == {<<0>>, <<7, 3>>, <<12, 5, 9>>}

InitFinale ==
  /\ \E shell \in FinaleShells :
       InitRun(ConfigOf(shell, TRUE, TRUE), Desktop, MaxFinaleFrames,
               MaxFinaleCalls)
  /\ InitStore
  /\ frameTime = MaxTimeStep

NextFinale == \E rnd \in FinaleDraws : Update(0, rnd)

SpecFinale == InitFinale /\ [][NextFinale]_vars

\* the sequencer: auto launch, the wall clock and the delayed callbacks; the
\* ticker delivers frames of SeqFrameTime
SeqShells == {TypeRandom, "Crysanthemum", "Willow"}
Devices == {Desktop, Header, Mobile}
\* the draws of a startSequence call: one cycle for each sequence
SeqDraws == {<<0>>, <<5>>, <<9, 7, 8>>, <<12, 7, 6>>}
\* the draws of a delayed callback
TimerDraws == {<<7, 6>>}

InitSeq ==
  /\ \E shell \in SeqShells, finale \in BOOLEAN, dev \in Devices :
       InitRun(ConfigOf(shell, TRUE, finale), dev, MaxSeqFrames, MaxSeqCalls)
  /\ InitParticles
  /\ frameTime = SeqFrameTime

NextSeq ==
  \/ \E rnd \in SeqDraws : Update(0, rnd)
  \/ \E rnd \in TimerDraws : TimerFire(0, rnd)
  \/ Tick

SpecSeq == InitSeq /\ [][NextSeq]_vars

\* the countdown of the auto launch: frames of MaxTimeStep, the pyramid and
\* the single shell, and the autoLaunch checkbox
AutoDevices == {Desktop, Mobile}
AutoDraws == {<<0>>, <<5>>}

InitAuto ==
  /\ \E dev \in AutoDevices, on \in BOOLEAN :
       InitRun(ConfigOf("Crysanthemum", on, FALSE), dev, MaxAutoFrames,
               MaxSeqCalls)
  /\ InitParticles
  /\ frameTime = MaxTimeStep

NextAuto ==
  \/ \E rnd \in AutoDraws : Update(0, rnd)
  \/ ToggleAutoLaunch

SpecAuto == InitAuto /\ [][NextAuto]_vars

\* pausing: auto launch with the sequences that schedule delayed launches,
\* clicks on the canvas, pause and menu toggles
PauseShells == {TypeRandom, "Crysanthemum"}
PauseDevices == {Header, Mobile}
PauseDraws == {<<9, 7, 8>>, <<12, 7, 6>>}

InitPause ==
  /\ \E shell \in PauseShells, dev \in PauseDevices :
       InitRun(ConfigOf(shell, TRUE, FALSE), dev, MaxSeqFrames, MaxPauseCalls)
  /\ InitParticles
  /\ frameTime = SeqFrameTime

NextPause ==
  \/ \E rnd \in PauseDraws : Update(0, rnd)
  \/ \E rnd \in TimerDraws : TimerFire(0, rnd)
  \/ \E rnd \in TimerDraws : Click(0, rnd)
  \/ Tick
  \/ TogglePause
  \/ ToggleMenu

SpecPause == InitPause /\ [][NextPause]_vars

\* the ticker against the wall clock: animation frames FrameCapMs and more
\* apart, delayed callbacks that run when they are due, and the sequences
\* that schedule delayed launches
FrameGaps == {FrameCapMs, 6 * FrameCapMs}

\* frameTime is not used: the ticker measures the time between frames
InitClock ==
  /\ \E shell \in PauseShells, dev \in PauseDevices :
       InitRun(ConfigOf(shell, TRUE, FALSE), dev, MaxClockFrames, MaxPauseCalls)
  /\ InitParticles
  /\ frameTime = 0

NextClock ==
  \/ \E gap \in FrameGaps, rnd \in PauseDraws : ClockFrame(gap, rnd)
  \/ \E rnd \in TimerDraws : ClockTimer(rnd)

SpecClock == InitClock /\ [][NextClock]_vars


\* calls on the Shell Catalog, for every configured shell type and every
\* cycle of draws
UnknownType == "Bogus"
ShellTypeNames == {Registrations[k].name : k \in 1..Len(Registrations)}
ConfigurableTypes == ShellTypeNames \cup {TypeRandom, UnknownType}
\* the two draws one getRandomTypeName call makes at most
DrawPairs == [1..2 -> Draws]
\* the draws of the retries of getFastFactory
DrawCycles == [1..DrawCycle -> Draws]

InitCatalog ==
  /\ \E type \in ConfigurableTypes :
        InitAppWith(ConfigOf(type, FALSE, FALSE), Desktop)
  /\ InitStore

\* the draws an operation has made
DrawsMade(w) == [k \in 1..w.rptr |-> w.rnd[((k - 1) % Len(w.rnd)) + 1]]

\* a behaviour makes one call on the catalog
Probed(op, arg, a) ==
  /\ ~a.w.overflow
  /\ probe' = [op |-> op, arg |-> arg, rnd |-> DrawsMade(a.w), name |-> a.name,
               found |-> a.found, thrown |-> a.w.thrown]
  /\ UNCHANGED <<storeVars, currentFrame, removes, frameTime, log>>
  /\ UNCHANGED <<config, device, sim, now, timers, hist>>

\* shellSystem.getRandomTypeName()
LookupRandomTypeName(rnd) ==
  /\ probe = NoProbe
  /\ Probed("getRandomTypeName", "",
         FastFactoryOf(getRandomTypeName([World EXCEPT !.rnd = rnd])))

\* shellSystem.createOptions(type, size)
LookupCreateOptions(type, rnd) ==
  /\ probe = NoProbe
  /\ Probed("createOptions", type,
         createOptions([World EXCEPT !.rnd = rnd], type))

\* shellSystem.getConfiguredOptions(size)
LookupConfiguredOptions(rnd) ==
  /\ probe = NoProbe
  /\ Probed("getConfiguredOptions", config.shell,
         getConfiguredOptions([World EXCEPT !.rnd = rnd]))

\* shellSystem.getFastFactory()
LookupFastFactory(rnd) ==
  /\ probe = NoProbe
  /\ Probed("getFastFactory", config.shell,
         getFastFactory([World EXCEPT !.rnd = rnd]))

\* a behaviour makes one call on a burst helper
CallCreateBurst(count, arcLength) ==
  /\ probe = NoProbe
  /\ probe' = [op |-> "createBurst", count |-> count, arcLength |-> arcLength,
               result |-> createBurstRings(count, arcLength)]
  /\ UNCHANGED <<storeVars, currentFrame, removes, frameTime, log>>
  /\ UNCHANGED <<config, device, sim, now, timers, hist>>

CallCreateParticleArc(start, arcLength, count) ==
  /\ probe = NoProbe
  /\ probe' = [op |-> "createParticleArc", start |-> start, count |-> count,
               arcLength |-> arcLength,
               result |-> createParticleArcAngles(start, arcLength, count)]
  /\ UNCHANGED <<storeVars, currentFrame, removes, frameTime, log>>
  /\ UNCHANGED <<config, device, sim, now, timers, hist>>

NextCatalog ==
  \/ \E rnd \in DrawPairs : LookupRandomTypeName(rnd)
  \/ \E type \in ConfigurableTypes, rnd \in DrawPairs :
        LookupCreateOptions(type, rnd)
  \/ \E rnd \in DrawPairs : LookupConfiguredOptions(rnd)
  \/ \E rnd \in DrawCycles : LookupFastFactory(rnd)

SpecCatalog == InitCatalog /\ [][NextCatalog]_vars

\* calls on the burst helpers with every count up to MaxBurstCount, over the
\* full and the half circle, and one crossette or crackle shell run with
\* every factory call of createParticleArc
BurstCounts == 1..MaxBurstCount
BurstArcs == {ANGLE_PI, 2 * ANGLE_PI}
ArcCounts == 1..MaxArcCount
ArcStarts == {0, PI_2_MICRO \div 4, 0 - PI_2_MICRO \div 2}
ArcLengths == {PI_2_MICRO, PI_2_MICRO \div 2, 0 - PI_2_MICRO}
ArcShells == {crossetteShell, crackleShell}

InitHelpers ==
  /\ config = ConfigOf("Crysanthemum", FALSE, FALSE)
  /\ device = Desktop
  /\ sim = SimulationNew
  /\ now = 0
  /\ timers = <<>>
  /\ hist = [NoHistory EXCEPT !.maxArc = CrackleCount,
                              !.maxStars = MaxArcStars,
                              !.maxSparks = MaxArcSparks]
  /\ probe = NoProbe
  /\ InitStore

NextHelpers ==
  \/ \E count \in BurstCounts, arcLength \in BurstArcs :
       shells = <<>> /\ CallCreateBurst(count, arcLength)
  \/ \E start \in ArcStarts, arcLength \in ArcLengths, count \in ArcCounts :
       shells = <<>> /\ CallCreateParticleArc(start, arcLength, count)
  \/ \E options \in ArcShells, seed \in Seeds :
       probe = NoProbe /\ LaunchOne(options, seed)
  \/ \E seed \in Seeds : probe = NoProbe /\ Frame(seed)

SpecHelpers == InitHelpers /\ [][NextHelpers]_vars

\* one shell of any recipe the catalog can produce, as far as colours go,
\* and frames
ColourRecipes ==
  {crysanthemumShell, ghostShell, strobeShell, palmShell, ringShell,
   crossetteShell, fallingLeavesShell, willowShell, crackleShell,
   horsetailShell, heartShell, starShell}
    \cup {[floralShell EXCEPT !.color = col] :
            col \in {<<"random">>, <<"Gold">>, <<"Red", "White">>}}
    \cup {[crysanthemumShell EXCEPT !.color = <<"Gold", "Red">>,
                                    !.secondColor = "", !.pistil = FALSE,
                                    !.pistilColor = "", !.streamers = t,
                                    !.glitter = g] :
            t \in BOOLEAN, g \in {"", "light"}}
    \cup {[strobeShell EXCEPT !.color = <<"Red">>, !.strobeColor = ""],
          [crackleShell EXCEPT !.color = <<"White">>],
          [horsetailShell EXCEPT !.color = <<"White">>, !.strobe = TRUE,
                                 !.glitterColor = "Gold"]}

InitColour ==
  /\ config = ConfigOf("Crysanthemum", FALSE, FALSE)
  /\ device = Desktop
  /\ sim = SimulationNew
  /\ now = 0
  /\ timers = <<>>
  /\ hist = [NoHistory EXCEPT !.maxStars = MaxArcStars,
                              !.maxSparks = MaxArcSparks]
  /\ probe = NoProbe
  /\ InitStore

NextColour ==
  \/ \E options \in ColourRecipes, seed \in Seeds : LaunchOne(options, seed)
  \/ \E seed \in Seeds : Frame(seed)

SpecColour == InitColour /\ [][NextColour]_vars

\* two shells with a death sound, and frames
InitSounds ==
  /\ config = ConfigOf("Crysanthemum", FALSE, FALSE)
  /\ device = Desktop
  /\ sim = SimulationNew
  /\ now = 0
  /\ timers = <<>>
  /\ hist = [NoHistory EXCEPT !.maxStars = 2 * MaxStars,
                              !.maxSparks = MaxArcSparks]
  /\ probe = NoProbe
  /\ InitStore

NextSounds ==
  \/ \E options \in ArcShells : LaunchEffectShell(options, 0)
  \/ \E seed \in Seeds : Frame(seed)

SpecSounds == InitSounds /\ [][NextSounds]_vars

\* one shell built from any combination of the flags burst() reads, run up
\* to its burst
EffectOptions ==
  {[NoOptions EXCEPT !.color = <<"Red">>, !.crossette = a, !.crackle = b,
                     !.floral = c, !.fallingLeaves = d, !.ring = r] :
     a \in BOOLEAN, b \in BOOLEAN, c \in BOOLEAN, d \in BOOLEAN, r \in BOOLEAN}

ShapeOptions ==
  {[NoOptions EXCEPT !.color = col, !.ring = r, !.heart = h, !.starShape = s] :
     col \in {<<"Gold">>, <<"Red", "Gold">>},
     r \in BOOLEAN, h \in BOOLEAN, s \in BOOLEAN}

NestOptions ==
  {[NoOptions EXCEPT !.color = col, !.pistil = p, !.pistilColor = "White",
                     !.streamers = t, !.crossette = a] :
     col \in {<<"Red">>, <<"Red", "Gold">>, <<"random">>},
     p \in BOOLEAN, t \in BOOLEAN, a \in BOOLEAN}

BurstOptions ==
  EffectOptions \cup ShapeOptions \cup NestOptions \cup {heartShell, starShell}

NextBurst ==
  \/ \E options \in BurstOptions, seed \in Seeds : LaunchOne(options, seed)
  \/ \E seed \in Seeds : FrameToBurst(seed)

SpecBurst == Init /\ [][NextBurst]_vars

(***************************************************************************)
(* Properties of the Particle Store                                        *)
(***************************************************************************)
\* position of a colour in the fixed bucket order
BucketIndex(c) == IndexOf(COLOR_CODES_W_INVIS, c)

\* how often instance id occurs in the buckets as
Occurrences(as, id) ==
  Cardinality({p \in UNION {{<<c, i>> : i \in 1..Len(as[c])} : c \in Buckets} :
                 as[p[1]][p[2]] = id})

\* the entries of a log sequence that are about use `use` of instance id
EntriesOf(seq, id, use) ==
  {k \in 1..Len(seq) : seq[k].id = id /\ seq[k].use = use}

\* C1: the update call in which a star's life first becomes <= 0 invokes its
\* onDeath callback exactly once, takes the star out of its bucket and
\* releases it in that same call; no live star is left with life <= 0 and no
\* use of an instance has its callback invoked twice.
StarDeath ==
  /\ \A c \in Buckets : \A i \in 1..Len(activeStars[c]) :
       stars[activeStars[c][i]].life > 0
  /\ \A id \in 1..Len(stars) : stars[id].deathCalls <= 1
  /\ log.op = "frame" =>
       /\ \A k \in 1..Len(log.aged) :
            LET e == log.aged[k]
                calls == IF e.cb # NoDeath THEN 1 ELSE 0
            IN IF e.life <= 0
               THEN /\ Cardinality(EntriesOf(log.released, e.id, e.use)) = 1
                    /\ Cardinality(EntriesOf(log.deaths, e.id, e.use)) = calls
                    /\ stars[e.id].use = e.use =>
                         /\ Occurrences(activeStars, e.id) = 0
                         /\ stars[e.id].deathCalls = calls
               ELSE /\ EntriesOf(log.released, e.id, e.use) = {}
                    /\ EntriesOf(log.deaths, e.id, e.use) = {}
       /\ \A k \in 1..Len(log.deaths) :
            \E j \in EntriesOf(log.aged, log.deaths[k].id, log.deaths[k].use) :
              log.aged[j].life <= 0 /\ log.aged[j].cb = log.deaths[k].cb

\* a star with a callback died with overshoot (life below 0) in this call
DeathWithOvershoot ==
  /\ log.op = "frame"
  /\ \E k \in 1..Len(log.aged) :
       /\ log.aged[k].life < 0
       /\ log.aged[k].cb # NoDeath
       /\ EntriesOf(log.deaths, log.aged[k].id, log.aged[k].use) # {}

AgedOnceStep ==
  /\ log'.op = "frame" =>
       /\ currentFrame' > currentFrame
       /\ \A j, k \in 1..Len(log'.aged) :
            (log'.aged[j].id = log'.aged[k].id /\ log'.aged[j].use = log'.aged[k].use)
              => j = k
       /\ \A j, k \in 1..Len(log'.physics) :
            (log'.physics[j].id = log'.physics[k].id
               /\ log'.physics[j].use = log'.physics[k].use) => j = k
       /\ \A k \in 1..Len(log'.aged) :
            LET e == log'.aged[k]
            IN (e.id <= Len(stars) /\ stars[e.id].use = e.use) =>
                 e.life = stars[e.id].life - log'.timeStep
  /\ \A id \in 1..Len(stars) :
       stars'[id].use = stars[id].use =>
         /\ stars'[id].life <= stars[id].life
         /\ stars'[id].life >= stars[id].life - log'.timeStep

\* C2: within one update call every star's life is decremented by timeStep at
\* most once and its physics applied at most once, also when a colour
\* transition moves it into a bucket iterated later in the call; frame stamps
\* strictly increase and across calls a star's life never increases.
AgedOnce == [][AgedOnceStep]_vars

\* a colour transition moved a star into a bucket iterated later in this call
MovedToLaterBucket ==
  /\ log.op = "frame"
  /\ \E k \in 1..Len(log.moved) :
       /\ BucketIndex(log.moved[k].from) < BucketIndex(log.moved[k].to)
       /\ \E j \in 1..Len(log.aged) : log.aged[j].id = log.moved[k].id

\* a second colour is set on the star
SecondColorSet(star) == star.secondColor # Undefined /\ star.secondColor # ""

TransitionStep ==
  \A id \in 1..Len(stars') :
    LET t == stars'[id]
        live == Occurrences(activeStars', id) > 0
    IN /\ t.moves <= 1
       /\ live =>
            /\ (t.moves = 1) <=> t.colorChanged
            /\ t.moves = 1 =>
                 /\ SecondColorSet(t) /\ PastTransition(t)
                 /\ t.color = t.secondColor
                 /\ Count(activeStars'[t.secondColor], id) = 1
                 /\ Occurrences(activeStars', id) = 1
            /\ (SecondColorSet(t) /\ PastTransition(t)) => t.moves = 1
       /\ (live /\ id <= Len(stars) /\ stars[id].use = t.use
                /\ stars[id].colorChanged) =>
            /\ t.color = stars[id].color
            /\ t.moves = stars[id].moves
            /\ Count(activeStars[t.color], id) = 1
            /\ \A k \in 1..Len(log'.moved) : log'.moved[k].id # id

\* C4: a star with secondColor and transitionTime set changes bucket exactly
\* once, in the first update call after which its life is below
\* transitionTime, into the bucket of secondColor; every later update call
\* leaves its bucket and colour unchanged, also when secondColor equals the
\* original colour.
TransitionOnce == [][TransitionStep]_vars

\* a star whose second colour equals its original colour has made its
\* transition in an earlier call and was updated again in this one
UpdatedAfterSameColourTransition ==
  /\ log.op = "frame"
  /\ Len(shells) > 0
  /\ shells[1].strobe /\ shells[1].color = <<shells[1].strobeColor>>
  /\ \E k \in 1..Len(log.physics) :
       LET id == log.physics[k].id
       IN /\ stars[id].moves = 1
          /\ stars[id].color = shells[1].strobeColor
          /\ \A j \in 1..Len(log.moved) : log.moved[j].id # id

\* C5, as claimed: what a death callback adds during an update call is not
\* aged or moved in that call.
CallbackSpawnsNotAged ==
  log.op = "frame" =>
    /\ \A k \in 1..Len(log.added) :
         log.added[k].inCallback =>
           EntriesOf(log.aged, log.added[k].id, log.added[k].use) = {}
    /\ \A k \in 1..Len(log.spAdded) :
         log.spAdded[k].inCallback =>
           EntriesOf(log.spAged, log.spAdded[k].id, log.spAdded[k].use) = {}

\* C6: a launched shell bursts at most once, never at launch, and only as
\* the death callback of its comet inside the update call that brings the
\* comet's life to <= 0, at the comet's position at death.
BurstsOnce ==
  /\ \A s \in 1..Len(shells) : shells[s].bursts <= 1
  /\ log.op # "frame" => log.bursts = <<>>
  /\ \A k \in 1..Len(log.bursts) :
       LET b == log.bursts[k]
       IN b.depth = 0 =>
            /\ b.shell \in 1..Len(shells)
            /\ \E d \in 1..Len(log.deaths) :
                 /\ log.deaths[d].cb = [kind |-> "burst", ref |-> b.shell]
                 /\ log.deaths[d].id = shells[b.shell].comet
                 /\ log.deaths[d].x = b.x /\ log.deaths[d].y = b.y
                 /\ \E j \in EntriesOf(log.aged, log.deaths[d].id, log.deaths[d].use) :
                      log.aged[j].life <= 0
  /\ \A d \in 1..Len(log.deaths) :
       log.deaths[d].cb.kind = "burst" =>
         /\ log.deaths[d].id = shells[log.deaths[d].cb.ref].comet
         /\ Cardinality({k \in 1..Len(log.bursts) :
                           log.bursts[k].depth = 0
                           /\ log.bursts[k].shell = log.deaths[d].cb.ref}) = 1

\* the comet's instance has been reused by a later star, which has died, and
\* the shell has burst once
CometInstanceReusedAndDied ==
  /\ log.op = "frame"
  /\ \E s \in 1..Len(shells) :
       /\ shells[s].bursts = 1
       /\ \E k \in 1..Len(log.aged) :
            /\ log.aged[k].id = shells[s].comet
            /\ log.aged[k].use > 1
            /\ log.aged[k].life <= 0

EffectFlags(o) ==
  {f \in {"crossette", "crackle", "floral", "fallingLeaves"} :
     \/ f = "crossette" /\ o.crossette
     \/ f = "crackle" /\ o.crackle
     \/ f = "floral" /\ o.floral
     \/ f = "fallingLeaves" /\ o.fallingLeaves}

\* the effect of the first / the last flag set, in the order crossette,
\* crackle, floral, fallingLeaves
FirstEffect(o) ==
  IF o.crossette THEN "crossette" ELSE IF o.crackle THEN "crackle"
  ELSE IF o.floral THEN "floral" ELSE IF o.fallingLeaves THEN "fallingLeaves"
  ELSE Undefined

LastEffect(o) ==
  IF o.fallingLeaves THEN "fallingLeaves" ELSE IF o.floral THEN "floral"
  ELSE IF o.crackle THEN "crackle" ELSE IF o.crossette THEN "crossette"
  ELSE Undefined

\* C7, as claimed: the stars of a burst carry the death effect of the first
\* flag set, and none when no flag is set.
FirstEffectWins ==
  \A k \in 1..Len(log.bursts) :
    \A j \in 1..Len(log.bursts[k].ownStars) :
      log.bursts[k].ownStars[j].onDeath.kind = FirstEffect(log.bursts[k].options)

\* C7, amended: the stars of a burst that is not a ring carry the death
\* effect of the last flag set (fallingLeaves over floral over crackle over
\* crossette), the stars of a ring burst carry none, and no star carries an
\* effect when no flag is set.
LastEffectWins ==
  \A k \in 1..Len(log.bursts) :
    LET b == log.bursts[k]
    IN \A j \in 1..Len(b.ownStars) :
         /\ b.ownStars[j].onDeath.kind =
              IF b.pattern = "ring" THEN Undefined ELSE LastEffect(b.options)
         /\ EffectFlags(b.options) = {} => b.ownStars[j].onDeath = NoDeath

\* a burst that is not a ring, of a recipe with three flags set, has made stars
BurstWithSeveralEffectFlags ==
  \E k \in 1..Len(log.bursts) :
    /\ Cardinality(EffectFlags(log.bursts[k].options)) = 3
    /\ log.bursts[k].pattern # "ring"
    /\ Len(log.bursts[k].ownStars) > 0

\* C8, as claimed: a single-colour shell bursts with the pattern of the
\* first shape flag its recipe sets among ring, heart, starShape, and with
\* the radial burst only when none is set.
ShapeFollowsFlags ==
  \A k \in 1..Len(log.bursts) :
    LET b == log.bursts[k]
    IN (b.depth = 0 /\ Len(b.options.color) = 1) =>
         b.pattern = IF b.options.ring THEN "ring"
                     ELSE IF b.options.heart THEN "heart"
                     ELSE IF b.options.starShape THEN "starShape"
                     ELSE "burst"

\* C9, as claimed: the flash queue grows by exactly 1 over the whole burst()
\* call of a launched shell.
OneFlashPerShellBurst ==
  \A k \in 1..Len(log.bursts) :
    log.bursts[k].depth = 0 =>
      log.bursts[k].flashes1 - log.bursts[k].flashes0 = 1

\* the nested bursts a burst makes
NestedCount(b) == (IF b.pistil THEN 1 ELSE 0) + (IF b.streamers THEN 1 ELSE 0)

\* C9, amended: every burst() call adds exactly one BurstFlash of its own;
\* over the whole call of a launched shell the queue grows by 1 plus one for
\* the pistil burst and one for the streamer burst.
OneFlashPerBurstCall ==
  /\ \A k \in 1..Len(log.bursts) :
       log.bursts[k].flashes1 - log.bursts[k].flashes0 = 1 + NestedCount(log.bursts[k])
  /\ log.op = "frame" => Len(log.flashes) >= Len(log.bursts)

\* a launched shell with pistil and streamers has burst
BurstWithPistilAndStreamers ==
  \E k \in 1..Len(log.bursts) :
    /\ log.bursts[k].depth = 0
    /\ log.bursts[k].pistil /\ log.bursts[k].streamers
    /\ log.bursts[k].flashes1 - log.bursts[k].flashes0 = 3

\* C10: burst() nests exactly one level: a burst makes at most one pistil and
\* one streamer burst, at its own point and inside its own call; a nested
\* shell has neither pistil nor streamers, has disableWord set and emits no
\* word, and makes no further burst.
NestedOneLevel ==
  /\ Len(log.bursts) <= 3 * MaxShells
  /\ \A k \in 1..Len(log.bursts) :
       LET b == log.bursts[k]
       IN /\ b.depth \in {0, 1}
          /\ b.bursts1 - b.bursts0 = 1 + NestedCount(b)
          /\ b.depth = 1 =>
               /\ ~b.pistil /\ ~b.streamers
               /\ b.disableWord /\ ~b.word
               /\ b.shell = 0
               /\ \E j \in 1..Len(log.bursts) :
                    /\ log.bursts[j].depth = 0
                    /\ log.bursts[j].bursts0 < b.bid
                    /\ b.bid <= log.bursts[j].bursts1
                    /\ log.bursts[j].x = b.x /\ log.bursts[j].y = b.y

\* a launched shell with pistil and streamers has burst and emitted a word
NestedBurstsUnderWordBurst ==
  /\ Len(log.bursts) = 3
  /\ \E k \in 1..Len(log.bursts) :
       /\ log.bursts[k].depth = 0
       /\ log.bursts[k].pistil /\ log.bursts[k].streamers
       /\ log.bursts[k].word

\* a recipe with one plain palette colour and no second colour, strobe,
\* pistil or streamers, its star count left to the constructor
Plain(o) ==
  /\ Len(o.color) = 1
  /\ o.color[1] \in Palette
  /\ o.secondColor = ""
  /\ ~o.strobe
  /\ ~o.pistil
  /\ ~o.streamers
  /\ o.starCount = 0

\* C25: burst(x, y) of a shell with one plain palette colour c and no second
\* colour, strobe, pistil or streamers derives its star count as
\* max(6, (spreadSize / 54)^2 * density), adds stars only to the bucket of c,
\* all of them starting at (x, y), and adds one BurstFlash at (x, y) of radius
\* spreadSize / 4.
PlainBurst ==
  \A k \in 1..Len(log.bursts) :
    LET b == log.bursts[k]
        c == b.options.color[1]
        density == IF b.options.starDensity = 0 THEN 100 ELSE b.options.starDensity
        square == b.options.spreadSize * b.options.spreadSize
    IN Plain(b.options) =>
         /\ b.starCount = Max(6, (square * density) \div (54 * 54 * 100))
         /\ b.added1 - b.added0 = Len(b.ownStars)
         /\ Len(b.ownStars) >= 1
         /\ \A j \in 1..Len(b.ownStars) :
              /\ b.ownStars[j].star.color = c
              /\ b.ownStars[j].star.x = b.x
              /\ b.ownStars[j].star.y = b.y
              /\ \E i \in 1..Len(log.added) :
                   /\ log.added[i].id = b.ownStars[j].id
                   /\ log.added[i].color = c
         /\ b.flashes1 = b.flashes0 + 1
         /\ b.flash = [x |-> b.x, y |-> b.y, radius |-> b.options.spreadSize \div 4]

\* a shell of colour Red and spreadSize 400 has burst: stars in the Red
\* bucket and a flash of radius 100
PlainRedBurst ==
  \E k \in 1..Len(log.bursts) :
    LET b == log.bursts[k]
    IN /\ Plain(b.options)
       /\ b.depth = 0
       /\ b.options.color = <<"Red">>
       /\ b.options.spreadSize = 400
       /\ b.starCount = 54
       /\ Len(b.ownStars) >= 2
       /\ b.flash.radius = 100
       /\ \E i \in 1..Len(log.flashes) : log.flashes[i] = b.flash

(***************************************************************************)
(* Properties of the object pool                                           *)
(***************************************************************************)
\* what the pool contract says of one call on the star pool
PoolCallOk(e) ==
  CASE e.op = "acquire" /\ e.pool0 # <<>> ->
         /\ e.id = e.pool0[Len(e.pool0)]
         /\ e.pool1 = SubSeq(e.pool0, 1, Len(e.pool0) - 1)
         /\ e.made = 0
         /\ e.others = {}
    [] e.op = "acquire" /\ e.pool0 = <<>> ->
         /\ e.made = 1
         /\ e.id = e.size1
         /\ e.pool1 = <<>>
         /\ e.others = {}
    [] e.op = "release" ->
         /\ e.resets1 = e.resets0 + 1
         /\ e.pool1 = Append(e.pool0, e.id)
         /\ e.made = 0
         /\ e.others = {}
    [] e.op = "preallocate" ->
         /\ Len(e.pool1) = Len(e.pool0) + e.count
         /\ SubSeq(e.pool1, 1, Len(e.pool0)) = e.pool0
         /\ e.made = e.count
         /\ e.others = {}

\* C11: acquire on a non-empty pool hands out the instance pushed last,
\* shrinks the free list by one and calls no factory; acquire on an empty
\* pool hands out the one instance one factory call made; release resets the
\* object exactly once and then pushes it; preallocate(n) pushes n new
\* instances.
PoolContract ==
  \A k \in 1..Len(log.pool) : PoolCallOk(log.pool[k])

\* C11 witness: an operation acquired from a free list of two or more
\* instances of which the last had been pushed by preallocate, and also
\* acquired from the empty pool and released an instance.
AcquiredFromStackedPool ==
  /\ hist.preallocs > 0
  /\ \E k \in 1..Len(log.pool) :
        /\ log.pool[k].op = "acquire"
        /\ Len(log.pool[k].pool0) >= 2
  /\ \E k \in 1..Len(log.pool) :
        log.pool[k].op = "acquire" /\ log.pool[k].pool0 = <<>>
  /\ \E k \in 1..Len(log.pool) : log.pool[k].op = "release"

\* the state addStar leaves on a star, whatever its previous use was
FreshStar(star, color) ==
  /\ star.onDeath = NoDeath
  /\ star.secondColor = Undefined
  /\ star.transitionTime = 0
  /\ ~star.colorChanged
  /\ star.strobeFreq = 0
  /\ ~star.strobe
  /\ star.spinRadius = 0
  /\ star.sparkFreq = 0
  /\ star.sparkTimer = 0
  /\ star.sparkColor = color
  /\ star.sparkLife = DefaultSparkLife
  /\ star.visible
  /\ ~star.heavy
  /\ star.moves = 0
  /\ star.deathCalls = 0

\* C12: a star that addStar takes from the free list comes back with
\* onDeath, secondColor, transitionTime, colorChanged and strobeFreq cleared
\* and the strobe, spin, spark and visibility fields at their defaults, and
\* every pooled star has the optional fields cleared.
ReusedStarIsFresh ==
  /\ \A k \in 1..Len(log.added) :
        log.added[k].reused => FreshStar(log.added[k].star, log.added[k].color)
  /\ \A k \in 1..Len(starPool) : ~HasOptionalState(stars[starPool[k]])

\* C12 witness: addStar reused a star whose last release found a death
\* callback or a done colour transition on it.
ReusedStarWasDirty ==
  \E k \in 1..Len(log.added) :
    /\ log.added[k].reused
    /\ log.added[k].star.dirty
    /\ log.added[k].star.use >= 2

(***************************************************************************)
(* Properties of the velocity addStar and addSpark give                    *)
(***************************************************************************)
\* the star of entry p of log.physics, as the update call has left it
Moved(p) == stars[p.id]

\* C21, as the specification states it: every star addStar adds gets
\* vx = sin(angle) * speed + speedOffX and vy = -cos(angle) * speed +
\* speedOffY, so that angle 0 points up (y grows downward), and addSpark
\* uses the same convention.
AngleZeroPointsUp ==
  /\ \A k \in 1..Len(log.added) :
       LET e == log.added[k]
       IN /\ e.star.speedX = Sin(e.o.angle) * e.o.speed + e.o.speedOffX
          /\ e.star.speedY = -Cos(e.o.angle) * e.o.speed + e.o.speedOffY
  /\ \A k \in 1..Len(log.spAdded) :
       LET e == log.spAdded[k]
       IN /\ e.spark.speedX = Sin(e.o.angle) * e.o.speed
          /\ e.spark.speedY = -Cos(e.o.angle) * e.o.speed

\* C21, amended: every star addStar adds gets vx = sin(angle) * speed +
\* speedOffX and vy = cos(angle) * speed + speedOffY: with positive speed and
\* no offsets angle 0 gives vy = speed (down, y growing downward) and angle
\* pi gives vy = -speed (up); addSpark uses the same convention without
\* offsets; and the update call moves a star by that velocity.
AngleZeroPointsDown ==
  /\ \A k \in 1..Len(log.added) :
       LET e == log.added[k]
       IN /\ e.star.speedX = Sin(e.o.angle) * e.o.speed + e.o.speedOffX
          /\ e.star.speedY = Cos(e.o.angle) * e.o.speed + e.o.speedOffY
          /\ (e.o.speed > 0 /\ e.o.speedOffY = 0) =>
               /\ e.o.angle = 0 => e.star.speedY = e.o.speed
               /\ e.o.angle = ANGLE_PI => e.star.speedY = -e.o.speed
  /\ \A k \in 1..Len(log.spAdded) :
       LET e == log.spAdded[k]
       IN /\ e.spark.speedX = Sin(e.o.angle) * e.o.speed
          /\ e.spark.speedY = Cos(e.o.angle) * e.o.speed
  /\ \A k \in 1..Len(log.physics) :
       LET p == log.physics[k]
       IN Moved(p).use = p.use =>
            /\ p.x1 - p.x0 = Moved(p).speedX
            /\ p.y1 - p.y0 = Moved(p).speedY

\* a frame has moved a comet, which launch() adds with angle pi and a
\* positive speed at the bottom of the stage, straight up
CometMovedUp ==
  /\ log.op = "frame"
  /\ \E k \in 1..Len(log.physics) :
       LET p == log.physics[k]
       IN /\ Moved(p).use = p.use
          /\ Moved(p).heavy
          /\ Moved(p).onDeath.kind = "burst"
          /\ p.y0 = StageH
          /\ p.y1 < p.y0
          /\ p.x1 = p.x0

(***************************************************************************)
(* Properties of the flash queue                                           *)
(***************************************************************************)
\* a step of popFlash or of a frame
FlashStep ==
  /\ log'.op = "popFlash" =>
       IF activeFlashes = <<>>
       THEN /\ log'.flashes = <<>>
            /\ activeFlashes' = <<>>
            /\ flashPool' = flashPool
       ELSE /\ log'.flashes = <<Last(activeFlashes)>>
            /\ activeFlashes' = Front(activeFlashes)
  /\ log'.op = "frame" =>
       /\ activeFlashes' = <<>>
       /\ log'.flashes = Reverse(activeFlashes \o log'.flAdded)

\* C22: popFlash removes and returns the flash queued last, and on an empty
\* queue returns nothing and changes nothing; a running frame (update, then
\* render) leaves the queue empty and hands every flash that was queued
\* before it or added in it to the renderer exactly once, last added first.
FlashesDrained == [][FlashStep]_vars

\* a frame in which a burst and its nested burst have added flashes of
\* different radius, both drained by the render
FrameDrainedTwoFlashes ==
  /\ log.op = "frame"
  /\ Len(log.flAdded) >= 2
  /\ log.flAdded[1] # log.flAdded[2]
  /\ Len(log.flashes) >= Len(log.flAdded)
  /\ activeFlashes = <<>>

(***************************************************************************)
(* Properties of the statistics                                            *)
(***************************************************************************)
\* the star instances in use: created and not in the free list
LiveStars == {i \in 1..Len(stars) : Count(starPool, i) = 0}

VisibleStars == {i \in LiveStars : stars[i].color # INVISIBLE}

\* the red, green and blue values of the palette colours
Rgb == [Red |-> <<255, 0, 67>>, Gold |-> <<255, 191, 54>>,
        White |-> <<255, 255, 255>>]

\* the sum of channel ch over the visible stars
ChannelSum(ch) ==
  LET Of(c) == Rgb[c][ch] * Cardinality({i \in VisibleStars : stars[i].color = c})
  IN Of("Red") + Of("Gold") + Of("White")

\* C23: in every state addStar and update calls lead to, getTotalStarCount
\* is the number of live stars whose colour is not the invisible sentinel and
\* getColorBrightness is the per-channel sum of the RGB values of the colours
\* of those stars.
StatisticsCountVisibleStars ==
  /\ getTotalStarCount(World) = Cardinality(VisibleStars)
  /\ getColorBrightness(World) =
       [r |-> ChannelSum(1), g |-> ChannelSum(2), b |-> ChannelSum(3)]

\* an update call has moved a star out of the invisible bucket, and the star
\* is counted
CountedAfterLeavingInvisible ==
  /\ log.op = "frame"
  /\ \E k \in 1..Len(log.moved) :
       /\ log.moved[k].from = INVISIBLE
       /\ log.moved[k].to \in Palette
       /\ log.moved[k].id \in VisibleStars
  /\ getTotalStarCount(World) >= 1
  /\ getColorBrightness(World).r >= 255

(***************************************************************************)
(* Properties of the burst sound                                           *)
(***************************************************************************)
\* C24: the scale passed with the 'burst' sound of a launched shell is
\* 0.7 + 0.3 * (1 - min(2, configuredSize - shellSize) / 2) and lies between
\* 0.7 and 1.0, for every configured size and every shell size, the
\* configured size being read when the shell bursts.
BurstSoundScaleInRange ==
  \A k \in 1..Len(log.scales) :
    LET e == log.scales[k]
        diff == device.size - shells[e.shell].shellSize
    IN e.type = "burst" =>
         /\ e.scale = 700 + 300 - 15 * (IF diff < 20 THEN diff ELSE 20)
         /\ e.scale >= 700
         /\ e.scale <= 1000

(***************************************************************************)
(* Properties of the spark emission and of the strobe                      *)
(***************************************************************************)
\* C26: in an update tick a live star with sparkFreq > 0 has timeStep taken
\* from its sparkTimer and, as often as the timer is below zero, emits one
\* Spark of colour sparkColor at its position and has the timer re-armed by
\* between 0.75 and 4.75 times sparkFreq: after the tick the timer is not
\* below zero and as many sparks were emitted as re-arms were needed.  A star
\* with sparkFreq = 0 emits no spark, and a star that has switched to the
\* invisible colour has sparkFreq = 0.
SparkEmission ==
  /\ \A k \in 1..Len(log.sparked) :
       LET e == log.sparked[k]
           n == Len(e.sparks)
           gain == e.timer1 - (e.timer0 - log.timeStep)
       IN IF e.freq > 0
          THEN /\ e.timer1 >= 0
               /\ n = 0 <=> e.timer0 - log.timeStep >= 0
               /\ n = 0 => gain = 0
               /\ n > 0 =>
                    /\ gain % n = 0
                    /\ 4 * (gain \div n) >= 3 * e.freq
                    /\ 4 * (gain \div n) <= 19 * e.freq
                    /\ e.timer1 - (gain \div n) < 0
               /\ \A j \in 1..n :
                    /\ e.sparks[j].color = e.color
                    /\ e.sparks[j].spark.x = e.x
                    /\ e.sparks[j].spark.y = e.y
          ELSE /\ n = 0
               /\ e.timer1 = e.timer0
  /\ log.op = "frame" =>
       Cardinality({j \in 1..Len(log.spAdded) : ~log.spAdded[j].inCallback})
         = Cardinality({<<k, j>> \in (1..Len(log.sparked)) \X (1..MaxSparks) :
                          j <= Len(log.sparked[k].sparks)})
  /\ \A i \in LiveStars :
       (stars[i].colorChanged /\ stars[i].color = INVISIBLE) =>
         stars[i].sparkFreq = 0

\* an update tick in which one star has emitted several sparks, and one in
\* which a star that had sparkled has switched to the invisible colour
SeveralSparksInOneTick ==
  /\ log.op = "frame"
  /\ \E k \in 1..Len(log.sparked) :
       /\ log.sparked[k].freq > 0
       /\ Len(log.sparked[k].sparks) >= 2
       /\ stars[log.sparked[k].id].color = INVISIBLE
       /\ stars[log.sparked[k].id].sparkFreq = 0

\* C27: a live strobe star is visible while its life is not below its
\* transitionTime; once the life is below it, the star is visible after an
\* update tick exactly when floor(life / strobeFreq) mod 3 = 0, with or
\* without a secondColor and whether or not its colour has changed.
StrobeBlinks ==
  \A i \in LiveStars :
    (stars[i].strobe /\ stars[i].strobeFreq > 0) =>
      IF stars[i].life < stars[i].transitionTime
      THEN stars[i].visible <=> ((stars[i].life \div stars[i].strobeFreq) % 3 = 0)
      ELSE stars[i].visible

\* a strobe star that an update tick has left dark after its colour change
StrobeDarkAfterColourChange ==
  /\ log.op = "frame"
  /\ \E i \in LiveStars :
       /\ stars[i].strobe
       /\ stars[i].colorChanged
       /\ stars[i].color = "Gold"
       /\ stars[i].life < stars[i].transitionTime
       /\ ~stars[i].visible
       /\ \E k \in 1..Len(log.physics) : log.physics[k].id = i

(***************************************************************************)
(* Properties of the sequencer's choice                                    *)
(***************************************************************************)
\* the delayed launches a startSequence call has scheduled
ScheduledBy(e) == SubSeq(timers, Len(timers) - e.scheduled + 1, Len(timers))

\* the call has launched one shell by sequence via and scheduled n callbacks
\* of the given kinds
Started(e, via, n, kinds) ==
  /\ e.launched = IF via = "" THEN 0 ELSE 1
  /\ Len(log.launches) = e.launched
  /\ \A j \in 1..Len(log.launches) : log.launches[j].via = via
  /\ e.scheduled = n
  /\ \A j \in 1..n : ScheduledBy(e)[j].kind \in kinds /\ ScheduledBy(e)[j].set = e.now

\* 900 ms plus up to 600 ms plus the extra delay
RandomDelayOf(delay, extraDelay) ==
  delay >= 900 + extraDelay /\ delay < 1500 + extraDelay

\* C28: a startSequence call after the opening one, with finale off, starts
\* exactly one of the five sequences and returns its delay: with r the one
\* draw of the choice, the small barrage if r < 0.08 and more than 15 s have
\* passed since the last one, otherwise the pyramid if r < 0.1, otherwise
\* the single random shell if r < 0.6 outside header mode, otherwise the
\* double if r < 0.8, otherwise the triple.
OneSequenceByOneDraw ==
  \A k \in 1..Len(log.seq) :
    LET e == log.seq[k]
        r == e.rand
        count == IF device.desktop THEN 11 ELSE 5
        half == IF device.desktop THEN 7 ELSE 4
        first == shells[log.launches[1].shell]
    IN (e.call > 1 /\ ~config.finale) =>
         /\ Len(log.seq) = 1
         /\ e.thrown = ""
         /\ IF 100 * r < 8 * RandomSteps /\ e.now - e.last > 15000
            THEN /\ Started(e, "seqSmallBarrage", count - 1,
                            {"barrageLeft", "barrageRight"})
                 /\ e.delay = 3400 + count * 120
            ELSE IF 10 * r < RandomSteps
            THEN /\ Started(e, "", 2 * half + 1,
                            {"pyramidTop", "pyramidLeft", "pyramidRight"})
                 /\ e.delay = 3400 + half * 250
            ELSE IF 10 * r < 6 * RandomSteps /\ ~device.header
            THEN /\ Started(e, "seqRandomShell", 0, {})
                 /\ RandomDelayOf(e.delay,
                                  IF first.fallingLeaves THEN 4600
                                  ELSE first.starLife * MsPerUnit)
            ELSE IF 10 * r < 8 * RandomSteps
            THEN /\ Started(e, "seqTwoRandom", 1, {"shell"})
                 /\ RandomDelayOf(e.delay,
                                  IF first.fallingLeaves
                                     \/ ScheduledBy(e)[1].options.fallingLeaves
                                  THEN 4600
                                  ELSE Max(first.starLife,
                                           ScheduledBy(e)[1].options.starLife)
                                         * MsPerUnit)
            ELSE /\ Started(e, "seqTriple", 2, {"factory"})
                 /\ e.delay = 4000

\* in header mode a draw between 0.1 and 0.6 has started the double sequence
HeaderDrawOfSingleStartedDouble ==
  /\ device.header
  /\ ~config.finale
  /\ \E k \in 1..Len(log.seq) :
       /\ log.seq[k].call > 1
       /\ 10 * log.seq[k].rand >= RandomSteps
       /\ 10 * log.seq[k].rand < 6 * RandomSteps
       /\ log.seq[k].scheduled = 1
       /\ log.seq[k].thrown = ""
  /\ Len(log.launches) = 1
  /\ log.launches[1].via = "seqTwoRandom"

\* what holds of every auto launch: one per update call, at most one
\* sequence started, and none and an unchanged countdown with autoLaunch off
AutoLaunchOnce ==
  /\ log.op = "frame" => Len(log.auto) = 1
  /\ Len(log.seq) <= 1
  /\ \A k \in 1..Len(log.auto) :
       /\ log.auto[k].started <=> Len(log.seq) = 1
       /\ ~log.auto[k].on => (~log.auto[k].started /\ log.auto[k].t1 = log.auto[k].t0)

\* C29 as stated: an update call starts a sequence if and only if
\* autoLaunch is on and the timeStep accumulated with autoLaunch on since the
\* last sequence reported its delay d has reached d.
StartedWhenDelayElapsed ==
  /\ AutoLaunchOnce
  /\ \A k \in 1..Len(log.auto) :
       log.auto[k].started <=> (log.auto[k].on /\ log.auto[k].acc >= log.auto[k].d)

\* C29, amended: an update call starts a sequence if and only if autoLaunch
\* is on and the timeStep accumulated with autoLaunch on since the last
\* sequence reported its delay d has reached 1.25 * d; at most one sequence
\* is started per update call, and with autoLaunch off the countdown is
\* left unchanged.
StartedWhenScaledDelayElapsed ==
  /\ AutoLaunchOnce
  /\ \A k \in 1..Len(log.auto) :
       log.auto[k].started <=>
         (log.auto[k].on /\ 4 * log.auto[k].acc >= 5 * log.auto[k].d)

\* an update call that has started a sequence, the first at which the
\* accumulated timeStep had reached 1.25 times the delay reported before,
\* after an update call at which it had reached the delay alone
StartedAfterScaledDelay ==
  \E k \in 1..Len(log.auto) :
    /\ log.auto[k].on
    /\ log.auto[k].started
    /\ log.auto[k].d > 0
    /\ 4 * log.auto[k].acc >= 5 * log.auto[k].d
    /\ log.auto[k].acc - log.auto[k].timeStep >= log.auto[k].d
    /\ 4 * (log.auto[k].acc - log.auto[k].timeStep) < 5 * log.auto[k].d

\* the delayed launches that were pending before the startSequence call of
\* this update call
PendingFromBefore ==
  {k \in 1..Len(timers) :
     \E j \in 1..Len(log.seq) :
       timers[k].id <= hist.timersSet - log.seq[j].scheduled}

\* update has started a sequence while a delayed launch of an earlier
\* sequence was pending
StartedWhilePending == log.seq # <<>> /\ PendingFromBefore # {}

RECURSIVE PartsUpTo(_, _)
PartsUpTo(rings, k) == IF k = 0 THEN 0 ELSE rings[k].parts + PartsUpTo(rings, k - 1)

\* C31: createBurst(count, factory) over the full circle makes, for each
\* ring index i from 0 up to C_HALF (C being the circumference sqrt(pi *
\* count)), the least whole number of factory calls that is not below
\* C * cos(ringAngle_i), ringAngle_i = (i / C_HALF) * pi / 2, with
\* cos(ringAngle_i) as the speed multiplier; the calls per ring never
\* increase from equator to pole, and their total lies between count and
\* count plus three per ring.
BurstFollowsCosine ==
  (probe.op = "createBurst" /\ probe.arcLength = 2 * ANGLE_PI) =>
    LET C == probe.result.C
        C_HALF == probe.result.C_HALF
        rings == probe.result.rings
        n == Len(rings)
        P == 3141593 * probe.count
    IN /\ C * C - P <= P \div 50
       /\ P - C * C <= P \div 50
       /\ C_HALF = C \div 2
       /\ (n - 1) * 1000 <= C_HALF
       /\ C_HALF < n * 1000
       /\ \A k \in 1..n :
            /\ rings[k].i = k - 1
            /\ rings[k].ringAngle = ((k - 1) * 1000 * PI_HALF_MILLI) \div C_HALF
            /\ rings[k].ringSize = CosMilli(rings[k].ringAngle)
            /\ rings[k].speedMult = rings[k].ringSize
            /\ rings[k].parts * 1000000 >= C * rings[k].ringSize
            /\ (rings[k].parts - 1) * 1000000 < C * rings[k].ringSize
                 \/ rings[k].parts = 0
            /\ k > 1 => /\ rings[k].parts <= rings[k - 1].parts
                        /\ rings[k].ringSize < rings[k - 1].ringSize
       /\ PartsUpTo(rings, n) >= probe.count
       /\ PartsUpTo(rings, n) <= probe.count + 3 * n

\* a burst of several rings whose last ring has fewer particles than its
\* first
BurstOfSeveralRings ==
  /\ probe.op = "createBurst"
  /\ probe.arcLength = 2 * ANGLE_PI
  /\ Len(probe.result.rings) >= 5
  /\ probe.result.rings[5].parts < probe.result.rings[1].parts
  /\ probe.result.rings[5].parts > 0

(***************************************************************************)
(* Properties of the Shell Catalog                                         *)
(***************************************************************************)
\* the first draw of the cycle is below 0.5
FirstDrawLow(rnd) == Len(rnd) > 0 /\ Below(rnd[1], 1, 2)

\* C19: getRandomTypeName returns 'Crysanthemum' when its first draw is
\* below 0.5 and otherwise one of the other twelve registered types, never
\* 'Random' and never an unregistered name.
RandomTypeNameFavorsOnce ==
  probe.op = "getRandomTypeName" =>
    /\ FirstDrawLow(probe.rnd) => probe.name = "Crysanthemum"
    /\ ~FirstDrawLow(probe.rnd) =>
          probe.name \in ShellTypeNames \ {"Crysanthemum"}
    /\ probe.name # TypeRandom
    /\ Registered(probe.name)

\* C20: a lookup by a name that is neither registered nor 'Random' ends
\* with a thrown error and hands out neither a recipe nor a factory.
UnknownLookupFailsFast ==
  (/\ probe.op \in {"createOptions", "getConfiguredOptions", "getFastFactory"}
   /\ probe.arg \notin ShellTypeNames \cup {TypeRandom})
  => (probe.thrown # "" /\ ~probe.found)

(***************************************************************************)
(* Properties of the sequencer                                             *)
(***************************************************************************)
\* C14: in finale mode every long pause of 6000 follows exactly
\* finaleCount = 32 launches since the previous long pause, every other
\* finale call launches one shell and reports 170, and currentFinaleCount
\* stays within 0..32.
FinaleCyclesOf32 ==
  /\ sim.currentFinaleCount \in 0..finaleCount
  /\ \A k \in 1..Len(log.seq) :
       log.seq[k].branch = "finale" =>
         /\ log.seq[k].launched = 1
         /\ log.seq[k].delay \in {170, 6000}
         /\ log.seq[k].delay = 6000 => log.seq[k].cycle = finaleCount

\* the shells a startSequence call or a delayed callback launched
LaunchesVia(vias) ==
  {k \in 1..Len(log.launches) : log.launches[k].via \in vias}

\* C13: the opening branch of startSequence is taken by the first call and
\* by no later one; it launches one Crysanthemum at 0.5 / 0.5 and returns
\* 2400, or runs the two-shell sequence in header mode, whatever the finale
\* switch and the configured shell type.
OpeningOnlyFirst ==
  /\ sim.isFirstSeq <=> hist.seqCalls = 0
  /\ \A k \in 1..Len(log.seq) :
       /\ log.seq[k].branch = "opening" <=> log.seq[k].call = 1
       /\ (log.seq[k].branch = "opening" /\ ~device.header) =>
             /\ log.seq[k].delay = 2400
             /\ log.seq[k].launched = 1
             /\ log.seq[k].scheduled = 0
             /\ Len(log.launches) = 1
             /\ log.launches[1].type = "Crysanthemum"
             /\ log.launches[1].position = 500
             /\ log.launches[1].height = 500
       /\ (log.seq[k].branch = "opening" /\ device.header) =>
             /\ log.seq[k].launched = 1
             /\ log.seq[k].scheduled = 1
             /\ LaunchesVia({"seqTwoRandom"}) = {1}
             /\ log.launches[1].type # ""

\* a later call, in finale mode with another configured type, after the
\* opening has launched its Crysanthemum
LaterCallAfterOpening ==
  /\ config.finale
  /\ config.shell = "Willow"
  /\ ~device.header
  /\ hist.seqCalls = 2
  /\ Len(log.seq) = 1
  /\ log.seq[1].branch = "finale"
  /\ log.launches[1].type = "Willow"

\* C15: a small barrage starts only when at least 15000 ms have passed
\* since the previous small barrage start, and since the construction of
\* the Simulation for the first one.
BarragesApart ==
  /\ \A i \in 1..Len(hist.barrages) :
       hist.barrages[i] - (IF i = 1 THEN 0 ELSE hist.barrages[i - 1])
         >= seqSmallBarrageCooldown
  /\ \A k \in 1..Len(log.seq) :
       log.seq[k].branch = "seqSmallBarrage" =>
         /\ log.seq[k].now - log.seq[k].last >= seqSmallBarrageCooldown
         /\ sim.seqSmallBarrageLastCalled = log.seq[k].now

\* two small barrages have started
TwoBarragesStarted ==
  /\ Len(hist.barrages) = 2
  /\ Len(log.seq) = 1
  /\ log.seq[1].branch = "seqSmallBarrage"

SlowTypes == {"Falling Leaves", "Floral", "Willow"}

\* C18: with the configured shell 'Random', getFastFactory returns the
\* factory of none of Falling Leaves, Floral and Willow, and no shell the
\* finale or the triple sequence launches is of one of these types.
FastFactoryAvoidsSlow ==
  config.shell = TypeRandom =>
    /\ \A k \in 1..Len(log.lookups) :
         log.lookups[k].op = "getFastFactory" =>
           /\ log.lookups[k].found
           /\ log.lookups[k].name \notin SlowTypes
    /\ \A k \in LaunchesVia({"seqRandomFastShell", "seqTriple", "factory"}) :
         log.launches[k].type \notin SlowTypes

\* a delayed launch of the triple sequence under 'Random'
TripleCallbackUnderRandom ==
  /\ config.shell = TypeRandom
  /\ log.op = "timer"
  /\ LaunchesVia({"factory"}) # {}

(***************************************************************************)
(* Properties of the delayed launches and of pausing                       *)
(***************************************************************************)

\* every timer set is pending or has fired, never both and never twice
TimersKept ==
  /\ hist.timersSet = Len(timers) + Len(hist.fired)
  /\ \A id \in 1..hist.timersSet :
       Cardinality({k \in 1..Len(timers) : timers[k].id = id})
         + Cardinality({k \in 1..Len(hist.fired) : hist.fired[k] = id}) = 1

\* the callback that has just run was due, and has launched one shell whose
\* comet is in the store
CallbackLaunched ==
  log.op = "timer" =>
    /\ Len(log.fired) = 1
    /\ log.fired[1].due <= log.fired[1].now
    /\ Len(log.launches) = 1
    /\ Len(log.added) = 1
    /\ Count(activeStars[log.added[1].color], log.added[1].id) = 1
    /\ stars[log.added[1].id].onDeath.kind = "burst"

\* C16: a scheduled sub-launch stays pending until the event loop runs it,
\* which it does once, when the delay has expired, also while the simulation
\* is paused or the menu is open; the callback adds its comet to the store,
\* and nothing cancels it.
DelayedLaunchFiresOnce == TimersKept /\ CallbackLaunched

\* a callback has run while the simulation was not running
FiredWhileNotRunning ==
  /\ log.op = "timer"
  /\ ~log.fired[1].running
  /\ config.paused \/ config.menuOpen
  /\ Len(log.added) = 1

\* C17: while the simulation is paused or the menu is open, a ticker event
\* changes nothing in the store or the sequencer; the only step that adds a
\* star is a delayed callback.
IdleStep ==
  (config.paused \/ config.menuOpen) =>
    /\ log'.op \in {"frame", "idle"} =>
          /\ UNCHANGED storeVars
          /\ UNCHANGED <<currentFrame, sim, timers>>
          /\ hist'.seqCalls = hist.seqCalls
    /\ (stars' # stars \/ activeStars' # activeStars) => log'.op = "timer"

NotRunningChangesNothing == [][IdleStep]_vars

\* a ticker event has come while the menu was open, with stars in flight
\* and a delayed launch pending
IdleTickWithStarsInFlight ==
  /\ log.op = "idle"
  /\ config.menuOpen
  /\ hist.idleTicks > 0
  /\ \E c \in Buckets : activeStars[c] # <<>>
  /\ timers # <<>>

(***************************************************************************)
(* Properties of the sequences                                             *)
(***************************************************************************)
\* the startSequence calls of the operation that ran seqTwoRandom
TwoRandomCalls ==
  {k \in 1..Len(log.seq) :
     \/ log.seq[k].branch = "seqTwoRandom"
     \/ log.seq[k].branch = "opening" /\ device.header}

\* the callbacks of seqTwoRandom that ran in the operation
SecondShellsFired ==
  {k \in 1..Len(log.fired) : log.fired[k].kind = "shell"}

\* C32: seqTwoRandom launches exactly two shells: the first at once at a
\* position in 0.2..0.4, the second by a callback set for 100 ms later at a
\* position in 0.6..0.8, so never in the other order; it returns 900 ms
\* plus up to 600 ms plus the larger star life of the two shells, or plus
\* 4600 ms when either shell is a falling-leaves shell.
TwoRandomLeftThenRight ==
  /\ \A k \in TwoRandomCalls :
       LET e == log.seq[k]
           first == shells[log.launches[1].shell]
           second == ScheduledBy(e)[1]
       IN /\ e.thrown = ""
          /\ Started(e, "seqTwoRandom", 1, {"shell"})
          /\ log.launches[1].position >= 200 /\ log.launches[1].position < 400
          /\ log.fired = <<>>
          /\ second.due = e.now + 100
          /\ second.offset >= 600 /\ second.offset < 800
          /\ RandomDelayOf(e.delay,
                           IF first.fallingLeaves \/ second.options.fallingLeaves
                           THEN 4600
                           ELSE Max(first.starLife, second.options.starLife)
                                  * MsPerUnit)
  /\ \A k \in SecondShellsFired :
       /\ Len(log.fired) = 1
       /\ log.seq = <<>>
       /\ log.fired[k].now >= log.fired[k].due
       /\ Len(log.launches) = 1
       /\ log.launches[1].via = "shell"
       /\ log.launches[1].position >= 600 /\ log.launches[1].position < 800
       /\ log.fired[k].id \notin {timers[j].id : j \in 1..Len(timers)}

\* the callback of a double sequence has launched the second shell
SecondShellLaunchedByCallback ==
  /\ SecondShellsFired # {}
  /\ Len(log.launches) = 1
  /\ log.launches[1].position >= 600

\* the callbacks of the given kinds that ran in the operation
Fired(kinds) == {k \in 1..Len(log.fired) : log.fired[k].kind \in kinds}

\* the one launch of the operation is at the given position and height
LaunchedAt(position, height) ==
  /\ Len(log.launches) = 1
  /\ log.launches[1].position = position
  /\ log.launches[1].height = height

\* C33: with half-count H (7 on desktop, 4 otherwise) the pyramid schedules
\* exactly 2H+1 launches and launches nothing itself: for k = 0..H-1, at
\* delay 200k a small shell at position k/(2H) and 30 to 60 ms later its
\* mirror at 1 - k/(2H) with the same height, and at delay 200H one large
\* shell at 0.5 and height 0.75, scheduled last; every delay is shorter
\* than the returned 3400 + 250H.
PyramidSchedule ==
  /\ \A n \in 1..Len(log.seq) :
       LET e == log.seq[n]
           H == IF device.desktop THEN 7 ELSE 4
           t == ScheduledBy(e)
       IN e.branch = "seqPyramid" =>
            /\ e.thrown = ""
            /\ e.launched = 0 /\ log.launches = <<>>
            /\ e.scheduled = 2 * H + 1
            /\ e.delay = 3400 + 250 * H
            /\ \A k \in 0..(H - 1) :
                 /\ t[2 * k + 1].kind = "pyramidLeft"
                 /\ t[2 * k + 1].due = e.now + 200 * k
                 /\ t[2 * k + 1].offset = (k * 1000) \div (2 * H)
                 /\ t[2 * k + 2].kind = "pyramidRight"
                 /\ t[2 * k + 2].due >= e.now + 200 * k + 30
                 /\ t[2 * k + 2].due < e.now + 200 * k + 60
                 /\ t[2 * k + 2].offset = t[2 * k + 1].offset
                 /\ t[2 * k + 1].size = Max(0, device.size - 30)
                 /\ t[2 * k + 2].size = Max(0, device.size - 30)
            /\ t[2 * H + 1].kind = "pyramidTop"
            /\ t[2 * H + 1].due = e.now + 200 * H
            /\ t[2 * H + 1].size = device.size
            /\ \A j \in 1..(2 * H) :
                 t[j].due < t[2 * H + 1].due /\ t[j].id < t[2 * H + 1].id
            /\ \A j \in 1..(2 * H + 1) :
                 t[j].set = e.now /\ t[j].due - e.now < e.delay
  /\ \A k \in Fired({"pyramidLeft"}) :
       LaunchedAt(log.fired[k].offset, (log.fired[k].offset * 2 * 42) \div 100)
  /\ \A k \in Fired({"pyramidRight"}) :
       LaunchedAt(1000 - log.fired[k].offset,
                  (log.fired[k].offset * 2 * 42) \div 100)
  /\ \A k \in Fired({"pyramidTop"}) : LaunchedAt(500, 750)

\* the large shell of a pyramid has been launched
PyramidTopLaunched ==
  Fired({"pyramidTop"}) # {} /\ LaunchedAt(500, 750)

\* C34: with count N (11 on desktop, 5 otherwise) the small barrage launches
\* exactly N shells: one at once at 0.5, then (N - 1) / 2 pairs, the p-th
\* pair set for 200p ms (the second of the pair 30 to 60 ms later) at
\* 0.5 + p/N and 0.5 - p/N, every position strictly between 0 and 1; it
\* records the time of the call for the cooldown and returns 3400 + 120N.
BarrageSchedule ==
  /\ \A n \in 1..Len(log.seq) :
       LET e == log.seq[n]
           N == IF device.desktop THEN 11 ELSE 5
           t == ScheduledBy(e)
       IN e.branch = "seqSmallBarrage" =>
            /\ e.thrown = ""
            /\ Started(e, "seqSmallBarrage", N - 1,
                       {"barrageLeft", "barrageRight"})
            /\ log.launches[1].position = 500
            /\ e.delay = 3400 + 120 * N
            /\ sim.seqSmallBarrageLastCalled = e.now
            /\ \A p \in 1..((N - 1) \div 2) :
                 /\ t[2 * p - 1].kind = "barrageRight"
                 /\ t[2 * p - 1].due = e.now + 200 * p
                 /\ t[2 * p - 1].offset = (p * 1000) \div N
                 /\ t[2 * p].kind = "barrageLeft"
                 /\ t[2 * p].due >= e.now + 200 * p + 30
                 /\ t[2 * p].due < e.now + 200 * p + 60
                 /\ t[2 * p].offset = t[2 * p - 1].offset
                 /\ t[2 * p].offset > 0 /\ t[2 * p].offset < 500
                 /\ t[2 * p - 1].size = Max(0, device.size - 20)
                 /\ t[2 * p].size = Max(0, device.size - 20)
  /\ \A k \in Fired({"barrageRight"}) :
       /\ Len(log.launches) = 1
       /\ log.launches[1].position = 500 + log.fired[k].offset
       /\ log.launches[1].position < 1000
  /\ \A k \in Fired({"barrageLeft"}) :
       /\ Len(log.launches) = 1
       /\ log.launches[1].position = 500 - log.fired[k].offset
       /\ log.launches[1].position > 0

\* the second shell of a pair of a small barrage has been launched
BarragePairLaunched ==
  /\ Fired({"barrageLeft"}) # {}
  /\ Len(log.launches) = 1
  /\ log.launches[1].position < 500

\* the death callbacks of the given kind that ran in the operation
DeathsOf(kind) ==
  {k \in 1..Len(log.deaths) : log.deaths[k].cb.kind = kind}

\* C35: createParticleArc with a count >= 1 and a positive arcLength ends
\* and calls the factory exactly count times, the k-th call (from 0) with
\* the angle start + k * arcLength / count before the jitter; hence the
\* death of a crossette star adds exactly 4 stars and the death of a
\* crackle star exactly 32 sparks in high quality (16 being the count of
\* the call otherwise).
ArcCallsFactoryCountTimes ==
  /\ (probe.op = "createParticleArc" /\ probe.arcLength > 0) =>
       /\ Len(probe.result) = probe.count
       /\ \A k \in 0..(probe.count - 1) :
            LET exact == probe.start + (k * probe.arcLength) \div probe.count
            IN /\ probe.result[k + 1] <= exact
               /\ probe.result[k + 1] >= exact - k
  /\ \A k \in DeathsOf("crossette") :
       log.deaths[k].stars = CrossetteCount /\ log.deaths[k].sparks = 0
  /\ \A k \in DeathsOf("crackle") :
       log.deaths[k].sparks = CrackleCount /\ log.deaths[k].stars = 0

\* a crackle star has died and added all the sparks of its arc
ArcOfCrackleStar ==
  /\ DeathsOf("crackle") # {}
  /\ \A k \in DeathsOf("crackle") : log.deaths[k].sparks = 32

(***************************************************************************)
(* Properties of the particle population                                   *)
(***************************************************************************)
\* the times spark id occurs in the spark buckets
RECURSIVE SparkOccurrencesIn(_, _)
SparkOccurrencesIn(colors, id) ==
  IF colors = {} THEN 0
  ELSE LET c == CHOOSE c \in colors : TRUE
       IN Count(activeSparks[c], id) + SparkOccurrencesIn(colors \ {c}, id)

\* C36: after any sequence of addStar, addSpark, update, removeStar and
\* removeSpark calls, whatever reference the remove calls are given, no
\* Star or Spark instance is in the free pool and in a bucket at once, and
\* none is in the free pool twice.
NoInstanceShared ==
  /\ \A id \in 1..Len(stars) :
       /\ Count(starPool, id) <= 1
       /\ Count(starPool, id) = 1 => Occurrences(activeStars, id) = 0
  /\ \A id \in 1..Len(sparks) :
       /\ Count(sparkPool, id) <= 1
       /\ Count(sparkPool, id) = 1 => SparkOccurrencesIn(Buckets, id) = 0

\* the longest life of a spark a star emits or a crackle makes
LongestSpark == Max(DefaultSparkLife, Max(CometSparkLife, CrackleLife))

\* the longest time from a death effect to the end of what it has added
LongestEffect == Max(LeavesLife, Max(FloralLife, CrossetteLife)) + 1 + LongestSpark

\* the time from the call of a death callback to the end of everything it
\* adds, at most
DeathTail(cb) ==
  CASE cb.kind = "burst" ->
         shells[cb.ref].starLife + WordExtraLife + LongestEffect
    [] cb.kind \in {"crossette", "floral", "fallingLeaves", "crackle"} ->
         LongestEffect
    [] OTHER -> 0

\* the time a live star and all that comes from it have left, at most
StarHorizon(star) ==
  Max(star.life, 1)
    + Max(IF star.sparkFreq # 0 THEN Max(star.sparkLife, 1) ELSE 0,
          DeathTail(star.onDeath))

ActiveStarIds == UNION {{activeStars[c][i] : i \in 1..Len(activeStars[c])} : c \in Buckets}
ActiveSparkIds == UNION {{activeSparks[c][i] : i \in 1..Len(activeSparks[c])} : c \in Buckets}

\* the time the population has left, at most: 0 with every bucket empty
Horizon ==
  LET h == {StarHorizon(stars[id]) : id \in ActiveStarIds}
             \cup {Max(sparks[id].life, 1) : id \in ActiveSparkIds}
  IN IF h = {} THEN 0 ELSE CHOOSE m \in h : \A n \in h : n <= m

\* C37: with no further launch, update calls with a positive timeStep
\* leave every star and spark bucket empty in the end: the time the
\* population has left is a whole number that every such update lowers,
\* whatever bursts, death effects and spark emission add in it.
PopulationBurnsDown ==
  [][(log'.op = "frame" /\ log'.timeStep > 0 /\ Horizon > 0)
       => Horizon' < Horizon]_vars

\* every bucket is empty again after a burst whose stars had a death effect
EmptyAfterEffects ==
  /\ log.op = "frame"
  /\ nBursts > 0
  /\ Horizon = 0
  /\ Len(shells) = 1
  /\ Len(stars) > 3

EffectKinds == {"crossette", "floral", "fallingLeaves", "crackle"}

\* the stars the k-th death callback of the operation has added, as they
\* are after the operation
StarsAddedBy(k) ==
  {stars[log.added[j].id] :
     j \in (log.deaths[k].from + 1)..(log.deaths[k].from + log.deaths[k].stars)}

\* the particles the first k death callbacks of the operation have added
RECURSIVE AddedByDeaths(_)
AddedByDeaths(k) ==
  IF k = 0 THEN [stars |-> 0, sparks |-> 0]
  ELSE [stars |-> AddedByDeaths(k - 1).stars + log.deaths[k].stars,
        sparks |-> AddedByDeaths(k - 1).sparks + log.deaths[k].sparks]

\* the sparks the first k spark emissions of the operation have added
RECURSIVE SparksEmitted(_)
SparksEmitted(k) ==
  IF k = 0 THEN 0 ELSE SparksEmitted(k - 1) + Len(log.sparked[k].sparks)

\* C38: the particles a death effect adds carry no death callback, so the
\* chain is comet, burst star, effect particle at most: a burst gives its
\* stars a death effect or nothing, never a burst; and in an update no
\* star or spark is added but by the death callback of a star or by the
\* spark emission of a live star, so the death of a spark adds nothing.
NoChainedEffects ==
  /\ \A k \in 1..Len(log.deaths) :
       /\ log.deaths[k].cb.kind \in EffectKinds =>
            \A star \in StarsAddedBy(k) : star.onDeath = NoDeath
       /\ log.deaths[k].cb.kind = "burst" =>
            \A star \in StarsAddedBy(k) :
              star.onDeath = NoDeath \/ star.onDeath.kind \in EffectKinds
  /\ log.op = "frame" =>
       /\ \A j \in 1..Len(log.added) : log.added[j].inCallback
       /\ Len(log.added) = AddedByDeaths(Len(log.deaths)).stars
       /\ Cardinality({j \in 1..Len(log.spAdded) : log.spAdded[j].inCallback})
            = AddedByDeaths(Len(log.deaths)).sparks
       /\ Cardinality({j \in 1..Len(log.spAdded) : ~log.spAdded[j].inCallback})
            = SparksEmitted(Len(log.sparked))

\* a death effect has added stars in an update, after sparks have died
EffectStarsAdded ==
  /\ log.op = "frame"
  /\ \E k \in 1..Len(log.deaths) :
       log.deaths[k].cb.kind \in EffectKinds /\ log.deaths[k].stars > 0
  /\ sparkPool # <<>>

\* every colour the operation that led to world w has passed to addStar
\* and addSpark has a bucket, and no call has thrown
BucketsFor(w) ==
  /\ ~w.error
  /\ \A j \in 1..Len(w.log.added) : w.log.added[j].color \in Buckets
  /\ \A j \in 1..Len(w.log.spAdded) : w.log.spAdded[j].color \in Buckets

\* C39: for every recipe the catalog can produce, whatever its colour
\* option (a palette colour, 'random', a two-colour array, the invisible
\* colour), every addStar and addSpark call of launch, burst, the nested
\* bursts, the death effects and the spark emission passes a colour that
\* has a bucket: no launch and no update that can come next fails on it.
ColoursHaveBuckets ==
  /\ shells = <<>> =>
       \A options \in ColourRecipes, seed \in Seeds :
         BucketsFor(launch([World EXCEPT !.seed = seed, !.log.op = "launch"],
                           options))
  /\ \A seed \in Seeds :
       BucketsFor(appUpdate([World EXCEPT !.seed = seed], frameTime))
  /\ \A j \in 1..Len(log.added) : log.added[j].color \in Buckets
  /\ \A j \in 1..Len(log.spAdded) : log.spAdded[j].color \in Buckets

\* the floral effect has added stars for a shell of colour 'random'
RandomFloralEffect ==
  /\ Len(shells) = 1
  /\ shells[1].color = <<"random">>
  /\ \E k \in 1..Len(log.deaths) :
       log.deaths[k].cb.kind = "floral" /\ log.deaths[k].stars > 0

\* the sound of a death effect
DeathSoundOf(kind) == IF kind = "crossette" THEN "crackleSmall" ELSE "crackle"

\* C40: the death sound of a burst of a crossette or crackle shell is
\* played exactly once, by the first star of the burst to die and by none
\* of the later ones, in the same update or in later ones; another burst
\* plays its own.
DeathSoundOncePerBurst ==
  /\ \A cb \in hist.died :
       Cardinality({j \in 1..Len(hist.deathSounds) :
                      hist.deathSounds[j].ref = cb.ref}) = 1
  /\ \A j \in 1..Len(hist.deathSounds) :
       \E cb \in hist.died :
         /\ cb.ref = hist.deathSounds[j].ref
         /\ hist.deathSounds[j].sound = DeathSoundOf(cb.kind)
  /\ \A k \in 1..Len(log.deaths) :
       LET d == log.deaths[k]
       IN d.cb.kind \in {"crossette", "crackle"} =>
            /\ Len(d.sounds) <= 1
            /\ Len(d.sounds) = 1 =>
                 \A j \in 1..(k - 1) : log.deaths[j].cb.ref # d.cb.ref

\* two bursts have played their death sounds, and a star has died after
\* the first star of its burst in the same update
TwoBurstsTwoSounds ==
  /\ Len(hist.deathSounds) = 2
  /\ hist.deathSounds[1].ref # hist.deathSounds[2].ref
  /\ \E k \in 1..Len(log.deaths) :
       /\ log.deaths[k].cb.kind \in {"crossette", "crackle"}
       /\ log.deaths[k].sounds = <<>>

====
